---- MODULE Spec2Model ----
(***************************************************************************)
(* A model of the foodiespot restaurant assistant:                         *)
(*   - ToolAgent (src/tool_pattern/tool_agent.py): one user turn of run()  *)
(*     and the per-call loop of process_tool_calls();                      *)
(*   - the tools get_recommendations and book_restaurant of                *)
(*     src/intent_restaurant_booking.py over a small restaurants table.    *)
(* Python values of mixed type are modelled as tagged records so that any  *)
(* two of them can be compared.  Free text (chat contents, messages) is    *)
(* modelled by tokens; a formatted string is the sequence of its pieces.   *)
(***************************************************************************)
EXTENDS Integers, Sequences, FiniteSets, TLC

VARIABLES
    \* ---- ToolAgent -----------------------------------------------------
    tool_chat_history,   \* self.tool_chat_history   (without the system prompt)
    agent_chat_history,  \* self.agent_chat_history
    tool_call_id,        \* self.tool_call_id, the per-turn call-id counter
    pc,                  \* where run() stands
    turn,                \* number of run() calls started
    tool_calls,          \* local of run(): extract_tag_content(...)
    idx,                 \* position of the for loop of process_tool_calls
    observations,        \* local of process_tool_calls / run
    response,            \* what run() returned
    trace,               \* history variable: the events of the current run()
    \* ---- the database and the tools -------------------------------------
    restaurants,         \* table restaurants, rows in storage order
    reservations,        \* table reservations, rows in insertion order
    book_last,           \* the last book_restaurant call: arguments, tables before, result
    rec_last,            \* the get_recommendations call: arguments, queries sent, result
    rank_last,           \* the list handed to the sorts of get_recommendations, and the list ranked
    tool_last,           \* the last call of a registered tool: name, arguments, dict returned
    bookings             \* book_restaurant calls running at the same time, statement by statement

agentVars == <<tool_chat_history, agent_chat_history, tool_call_id, pc, turn,
               tool_calls, idx, observations, response, trace>>

dbVars == <<restaurants, reservations>>
toolVars == <<book_last, rec_last, rank_last, tool_last, bookings>>

vars == <<agentVars, dbVars, toolVars>>

(***************************************************************************)
(* Bounds of the model.                                                    *)
(***************************************************************************)
MaxTurns == 2      \* user turns per behaviour
MaxBlocks == 2     \* call blocks in one model output

(***************************************************************************)
(* Python values.                                                          *)
(***************************************************************************)
PyStr(x) == [t |-> "str", s |-> x, n |-> 0]
PyInt(k) == [t |-> "int", s |-> "", n |-> k]
PyNone == [t |-> "none", s |-> "", n |-> 0]

\* The decimal numerals the model's strings can spell.
NumeralValue == ("4" :> 4) @@ ("2" :> 2)

\* int(value): [ok, v]; ok is FALSE where Python raises ValueError/TypeError.
IntOf(v) ==
    CASE v.t = "int" -> [ok |-> TRUE, v |-> v]
      [] v.t = "str" /\ v.s \in DOMAIN NumeralValue ->
            [ok |-> TRUE, v |-> PyInt(NumeralValue[v.s])]
      [] OTHER -> [ok |-> FALSE, v |-> v]

\* A dict, in insertion order: a sequence of [key, value] with distinct keys.
IntKey(k) == [t |-> "int", i |-> k, s |-> ""]
StrKey(x) == [t |-> "str", i |-> 0, s |-> x]
DictHas(d, k) == \E i \in 1..Len(d) : d[i].key = k
DictGet(d, k) == d[CHOOSE i \in 1..Len(d) : d[i].key = k].value
DictSet(d, k, v) ==
    IF DictHas(d, k)
    THEN [i \in 1..Len(d) |-> IF d[i].key = k THEN [key |-> k, value |-> v] ELSE d[i]]
    ELSE Append(d, [key |-> k, value |-> v])

(***************************************************************************)
(* Exceptions.  str(e) of a KeyError is the repr of its argument (the      *)
(* argument between quotes); str(e) of the others is the message.          *)
(***************************************************************************)
Exc(kind, arg) == [kind |-> kind, arg |-> arg]
NoExc == Exc("", "")
ExcStr(e) == IF e.kind = "KeyError" THEN <<"'", e.arg, "'">> ELSE <<e.arg>>

(***************************************************************************)
(* Tool results as the agent sees them: a dict with a status and a data    *)
(* field; json is FALSE for a result json.dumps cannot serialize.          *)
(***************************************************************************)
Result(status, data, json) == [status |-> status, data |-> data, json |-> json]
NoResult == Result("", "", TRUE)
ResultValue(r) == [t |-> "dict", r |-> r, m |-> <<>>]
StrValue(m) == [t |-> "str", r |-> NoResult, m |-> m]

\* What tool.run(**args) can do: return a result or raise.
ToolOutcomes ==
    { [raises |-> FALSE, r |-> Result("success", "rows", TRUE), e |-> NoExc],
      [raises |-> FALSE, r |-> Result("no_results", "empty_list", TRUE), e |-> NoExc],
      [raises |-> FALSE, r |-> Result("not_found", "null", TRUE), e |-> NoExc],
      [raises |-> FALSE, r |-> Result("success", "rows", FALSE), e |-> NoExc],
      [raises |-> TRUE, r |-> NoResult, e |-> Exc("KeyError", "cuisine")],
      [raises |-> TRUE, r |-> NoResult, e |-> Exc("TypeError", "unexpected keyword argument")] }

(***************************************************************************)
(* The registry (main registers eight tools) and what the signatures of    *)
(* the tools say: the parameters without a default.                        *)
(***************************************************************************)
tools_dict ==
    { "search_restaurants", "get_restaurant_details", "get_recommendations",
      "progressive_restaurant_inquiry", "validate_booking_info", "book_restaurant",
      "check_reservation", "get_available_options" }

RequiredParams(name) ==
    CASE name = "get_restaurant_details" -> {"restaurant_name"}
      [] name = "progressive_restaurant_inquiry" -> {"query"}
      [] name = "book_restaurant" ->
            {"restaurant_name", "reservation_time", "party_size", "customer_name",
             "contact_number"}
      [] name = "check_reservation" -> {"confirmation_number"}
      [] OTHER -> {}

(***************************************************************************)
(* Raw call blocks: what json.loads makes of the text between the tags.    *)
(* json is "invalid" for text that does not parse, "object" for a mapping. *)
(***************************************************************************)
NoArgs == [p \in {} |-> PyNone]

RawBlock(json, hasName, name, hasId, id, arguments) ==
    [json |-> json, hasName |-> hasName, name |-> name, hasId |-> hasId, id |-> id,
     arguments |-> arguments]

RawBlocks ==
    { RawBlock("invalid", FALSE, "", FALSE, 0, NoArgs),
      RawBlock("object", FALSE, "", TRUE, 0, NoArgs),
      RawBlock("object", TRUE, "order_pizza", TRUE, 3, NoArgs),
      RawBlock("object", TRUE, "get_recommendations", FALSE, 0,
               ("city" :> PyStr("chicago")) @@ ("group_size" :> PyStr("4"))),
      RawBlock("object", TRUE, "get_restaurant_details", TRUE, 7,
               ("restaurant_name" :> PyStr("Nobu"))),
      RawBlock("object", TRUE, "get_restaurant_details", TRUE, 0, NoArgs) }

\* Call blocks with arguments for the parameters declared int.
NumericBlocks ==
    { RawBlock("object", TRUE, "get_recommendations", FALSE, 0,
               ("city" :> PyStr("chicago")) @@ ("group_size" :> PyStr("4"))),
      RawBlock("object", TRUE, "get_recommendations", TRUE, 0,
               ("group_size" :> PyStr("abc"))),
      RawBlock("object", TRUE, "check_reservation", TRUE, 1,
               ("confirmation_number" :> PyStr("abc"))),
      RawBlock("object", TRUE, "validate_booking_info", TRUE, 2,
               ("party_size" :> PyStr("2")) @@ ("city" :> PyStr("4"))) }

\* The sequences of at most n raw blocks.
BlockSeqs(n) == UNION { [1..k -> RawBlocks] : k \in 0..n }

(***************************************************************************)
(* Collaborators whose code is not in src/ (tool_pattern/tool.py and       *)
(* utils/): modelled from the specification.                               *)
(***************************************************************************)
\* build_prompt_structure: a ChatMessage {role, content}.  The content is
\* kept as the kind of text and the turn that produced it.
build_prompt_structure(kind, role, t) ==
    [role |-> role, content |-> [kind |-> kind, turn |-> t]]

\* ChatHistory.append / update_chat_history: the message goes to the end.
update_chat_history(history, kind, role, t) ==
    Append(history, build_prompt_structure(kind, role, t))

\* extract_tag_content: the raw segments in order, found iff there is one.
extract_tag_content(blocks) == [found |-> Len(blocks) > 0, content |-> blocks]

\* validate_arguments: a required parameter that is absent fails the call;
\* otherwise the call gets the id `count`, the number of calls validated so
\* far in this turn, whatever id the raw block carries, and the arguments
\* declared numeric are coerced where they can be.
NumericParams == {"group_size", "party_size", "confirmation_number"}

\* Mutant of validate_arguments: no argument is coerced.
validate_arguments_uncoerced(tool_call, count) ==
    IF ~(RequiredParams(tool_call.name) \subseteq DOMAIN tool_call.arguments)
    THEN [raises |-> TRUE, e |-> Exc("MissingArgument", "missing required argument"),
          call |-> tool_call]
    ELSE [raises |-> FALSE, e |-> NoExc,
          call |-> [tool_call EXCEPT !.hasId = TRUE, !.id = count]]

validate_arguments(tool_call, count) ==
    IF ~(RequiredParams(tool_call.name) \subseteq DOMAIN tool_call.arguments)
    THEN [raises |-> TRUE, e |-> Exc("MissingArgument", "missing required argument"),
          call |-> tool_call]
    ELSE [raises |-> FALSE, e |-> NoExc,
          call |-> [tool_call EXCEPT
                      !.hasId = TRUE,
                      !.id = count,
                      !.arguments =
                          [k \in DOMAIN tool_call.arguments |->
                              IF k \in NumericParams
                              THEN IntOf(tool_call.arguments[k]).v
                              ELSE tool_call.arguments[k]]]]

(***************************************************************************)
(* process_tool_calls, one pass of its for loop.                           *)
(***************************************************************************)
\* Events of the history variable.
Ev(ev, i, id, r) == [ev |-> ev, i |-> i, id |-> id, r |-> r, args |-> NoArgs]

\* Line 151, tool.run(**args): the arguments the tool receives.
Invoke(i, id, args) == [Ev("invoke", i, id, NoResult) EXCEPT !.args = args]

\* Lines 143-149: group_size is converted when int() accepts it.
CoerceGroupSize(args) ==
    [k \in DOMAIN args |->
        IF k = "group_size" /\ args[k] # PyNone /\ IntOf(args[k]).ok
        THEN IntOf(args[k]).v
        ELSE args[k]]

\* The key under which line 154 stores the result.
ResultKey(raw, validated) == IntKey(validated.id)

\* The body of the try (lines 124-154) for raw block b, with tool.run doing o:
\* what is raised or stored, the counter after it and the events.
TryBody(b, i, o, count) ==
    IF b.json = "invalid"
    THEN [raises |-> TRUE, e |-> Exc("JSONDecodeError", "Expecting value"),
          count |-> count, key |-> IntKey(0), r |-> NoResult, evs |-> <<>>]
    ELSE IF ~b.hasName
    THEN [raises |-> TRUE, e |-> Exc("KeyError", "name"),
          count |-> count, key |-> IntKey(0), r |-> NoResult, evs |-> <<>>]
    ELSE IF b.name \notin tools_dict
    THEN [raises |-> TRUE, e |-> Exc("KeyError", b.name),
          count |-> count, key |-> IntKey(0), r |-> NoResult, evs |-> <<>>]
    ELSE LET v == validate_arguments(b, count) IN
         IF v.raises
         THEN [raises |-> TRUE, e |-> v.e,
               count |-> count, key |-> IntKey(0), r |-> NoResult, evs |-> <<>>]
         ELSE LET args == CoerceGroupSize(v.call.arguments)
                  evv == <<Ev("validated", i, v.call.id, NoResult),
                           Invoke(i, v.call.id, args)>>
              IN IF o.raises
                 THEN [raises |-> TRUE, e |-> o.e, count |-> count + 1,
                       key |-> IntKey(0), r |-> NoResult,
                       evs |-> evv \o <<Ev("raise", i, v.call.id, NoResult)>>]
                 ELSE [raises |-> FALSE, e |-> NoExc, count |-> count + 1,
                       key |-> ResultKey(b, v.call), r |-> o.r,
                       evs |-> evv \o <<Ev("return", i, v.call.id, o.r)>>]

\* The except clauses (lines 155-160): the value stored under "error".
NotFoundMessage(e) == <<"Tool '">> \o ExcStr(e) \o <<"' not found">>
ErrorMessage(e) == <<"Error: ">> \o ExcStr(e)
Handler(e) ==
    IF e.kind = "KeyError" THEN StrValue(NotFoundMessage(e)) ELSE StrValue(ErrorMessage(e))

\* observations after the pass for block b.
AfterCall(obs, out) ==
    IF out.raises
    THEN DictSet(obs, StrKey("error"), Handler(out.e))
    ELSE DictSet(obs, out.key, ResultValue(out.r))

\* Mutant of NextIdx: a failed call ends the loop.
NextIdxAbort(i, out) == IF out.raises THEN Len(tool_calls.content) + 1 ELSE i + 1

\* Where the loop goes after block i: the next block.
NextIdx(i, out) == i + 1

(***************************************************************************)
(* run(user_msg), in the steps its external calls cut it into.             *)
(***************************************************************************)
NoCalls == [found |-> FALSE, content |-> <<>>]
NoResponse == [kind |-> "", turn |-> 0]
Event(ev) == Ev(ev, 0, 0, NoResult)

\* Mutant of Run: the counter is not reset.
RunNoReset ==
    /\ pc = "idle"
    /\ turn < MaxTurns
    /\ turn' = turn + 1
    /\ tool_chat_history' = update_chat_history(tool_chat_history, "user_msg", "user", turn + 1)
    /\ agent_chat_history' = update_chat_history(agent_chat_history, "user_msg", "user", turn + 1)
    /\ trace' = <<Event("append_user")>>
    /\ pc' = "plan"
    /\ UNCHANGED <<tool_call_id, tool_calls, idx, observations, response,
                 dbVars, toolVars>>

\* Lines 177-184: the counter is reset and the user message goes to both
\* histories.
Run ==
    /\ pc = "idle"
    /\ turn < MaxTurns
    /\ turn' = turn + 1
    /\ tool_call_id' = 0
    /\ tool_chat_history' = update_chat_history(tool_chat_history, "user_msg", "user", turn + 1)
    /\ agent_chat_history' = update_chat_history(agent_chat_history, "user_msg", "user", turn + 1)
    /\ trace' = <<Event("append_user")>>
    /\ pc' = "plan"
    /\ UNCHANGED <<tool_calls, idx, observations, response,
                 dbVars, toolVars>>

\* Mutant of CompleteTool: the planning output goes to the agent history.
CompleteToolWrongHistory ==
    /\ pc = "plan"
    /\ \E blocks \in BlockSeqs(MaxBlocks) :
          /\ tool_calls' = extract_tag_content(blocks)
          /\ pc' = IF Len(blocks) > 0 THEN "dispatch" ELSE "answer"
    /\ agent_chat_history' =
          update_chat_history(agent_chat_history, "tool_call_response", "assistant", turn)
    /\ trace' = trace \o <<Event("complete_tool"), Event("append_tool")>>
    /\ idx' = 1
    /\ observations' = <<>>
    /\ UNCHANGED <<tool_chat_history, tool_call_id, turn, response,
                 dbVars, toolVars>>

\* Lines 186-199: the completion on the tool history, its output appended to
\* the tool history, the call blocks extracted from it.
CompleteTool ==
    /\ pc = "plan"
    /\ \E blocks \in BlockSeqs(MaxBlocks) :
          /\ tool_calls' = extract_tag_content(blocks)
          /\ pc' = IF Len(blocks) > 0 THEN "dispatch" ELSE "answer"
    /\ tool_chat_history' =
          update_chat_history(tool_chat_history, "tool_call_response", "assistant", turn)
    /\ trace' = trace \o <<Event("complete_tool"), Event("append_tool")>>
    /\ idx' = 1
    /\ observations' = <<>>
    /\ UNCHANGED <<agent_chat_history, tool_call_id, turn, response,
                 dbVars, toolVars>>

\* CompleteTool with a model output whose call blocks carry numeric arguments.
CompleteToolNumeric ==
    /\ pc = "plan"
    /\ \E k \in 1..MaxBlocks : \E blocks \in [1..k -> NumericBlocks] :
          /\ tool_calls' = extract_tag_content(blocks)
          /\ pc' = "dispatch"
    /\ tool_chat_history' =
          update_chat_history(tool_chat_history, "tool_call_response", "assistant", turn)
    /\ trace' = trace \o <<Event("complete_tool"), Event("append_tool")>>
    /\ idx' = 1
    /\ observations' = <<>>
    /\ UNCHANGED <<agent_chat_history, tool_call_id, turn, response,
                 dbVars, toolVars>>

\* Lines 122-160: one call block.
ProcessToolCall ==
    /\ pc = "dispatch"
    /\ idx <= Len(tool_calls.content)
    /\ \E o \in ToolOutcomes :
          LET out == TryBody(tool_calls.content[idx], idx, o, tool_call_id) IN
          /\ observations' = AfterCall(observations, out)
          /\ tool_call_id' = out.count
          /\ trace' = trace \o <<Ev("block", idx, 0, NoResult)>> \o out.evs
          /\ idx' = NextIdx(idx, out)
    /\ UNCHANGED <<tool_chat_history, agent_chat_history, pc, turn, tool_calls, response,
                 dbVars, toolVars>>

\* Lines 204-211: the reminder for a result with no data.
Falsy(data) == data \in {"empty_list", "null"}
\* Mutant of NeedsReminder: only the last recorded result is looked at.
NeedsReminderLast(obs) ==
    /\ obs # <<>>
    /\ obs[Len(obs)].value.t = "dict"
    /\ obs[Len(obs)].value.r.status = "no_results"
    /\ Falsy(obs[Len(obs)].value.r.data)

NeedsReminder(obs) ==
    \E i \in 1..Len(obs) :
        /\ obs[i].value.t = "dict"
        /\ obs[i].value.r.status = "no_results"
        /\ Falsy(obs[i].value.r.data)
ReminderValue == [t |-> "dict", r |-> NoResult, m |-> <<"IMPORTANT: No restaurants found">>]
WithReminder(obs) ==
    IF NeedsReminder(obs) THEN DictSet(obs, StrKey("reminder"), ReminderValue) ELSE obs

\* json.dumps(observations, indent=2) raises TypeError on a value it cannot
\* serialize.
DumpsRaises(obs) == \E i \in 1..Len(obs) : ~obs[i].value.r.json

\* Mutant of ObservationMessage: the failure of json.dumps is not caught
\* into an error message.
ObservationMessageAlways(obs) == "Observation"

\* Lines 213-227: what the agent history gets after the dispatch.
ObservationMessage(obs) == IF DumpsRaises(obs) THEN "Error" ELSE "Observation"

\* Mutant of FormatObservations: no except clause around the dispatch, the
\* failure of json.dumps leaves run().
FormatObservationsUncaught ==
    /\ pc = "dispatch"
    /\ idx > Len(tool_calls.content)
    /\ observations' = WithReminder(observations)
    /\ IF DumpsRaises(WithReminder(observations))
       THEN /\ pc' = "raised"
            /\ UNCHANGED agent_chat_history
       ELSE /\ pc' = "answer"
            /\ agent_chat_history' =
                  update_chat_history(agent_chat_history, "Observation", "user", turn)
    /\ trace' = trace \o <<Event("dispatched")>>
    /\ UNCHANGED <<tool_chat_history, tool_call_id, turn, tool_calls, idx, response,
                 dbVars, toolVars>>

\* Lines 201-227, after the loop: reminder, serialization, synthetic message.
FormatObservations ==
    /\ pc = "dispatch"
    /\ idx > Len(tool_calls.content)
    /\ observations' = WithReminder(observations)
    /\ agent_chat_history' =
          update_chat_history(agent_chat_history,
                              ObservationMessage(WithReminder(observations)), "user", turn)
    /\ trace' = trace \o <<Event("dispatched")>>
    /\ pc' = "answer"
    /\ UNCHANGED <<tool_chat_history, tool_call_id, turn, tool_calls, idx, response,
                 dbVars, toolVars>>

\* Lines 229-238: the completion on the agent history, its output appended
\* to the agent history and returned.
CompleteAgent ==
    /\ pc = "answer"
    /\ agent_chat_history' = update_chat_history(agent_chat_history, "response", "assistant", turn)
    /\ response' = [kind |-> "response", turn |-> turn]
    /\ trace' = trace \o <<Event("complete_agent"), Event("append_agent")>>
    /\ pc' = "returned"
    /\ UNCHANGED <<tool_chat_history, tool_call_id, turn, tool_calls, idx, observations,
                 dbVars, toolVars>>

\* main, lines 870-877: the reply is printed and the loop reads the next
\* input; the locals of run() are gone.
MainLoop ==
    /\ pc = "returned"
    /\ pc' = "idle"
    /\ tool_calls' = NoCalls
    /\ idx' = 1
    /\ observations' = <<>>
    /\ response' = NoResponse
    /\ trace' = <<>>
    /\ UNCHANGED <<tool_chat_history, agent_chat_history, tool_call_id, turn,
                 dbVars, toolVars>>

(***************************************************************************)
(* The completion provider failing.  completions_create is not in src/;    *)
(* run() calls it outside any try (lines 186 and 229), so what it raises   *)
(* leaves run() and reaches the except clause of main.                     *)
(***************************************************************************)
\* What a completion request can raise.
CompletionFailures == {"APIConnectionError"}

\* Line 186 raising: nothing is appended after the user message.
CompleteToolRaises ==
    /\ pc = "plan"
    /\ \E e \in CompletionFailures :
          trace' = trace \o <<Ev("complete_tool_raise", 0, 0, NoResult)>>
    /\ pc' = "raised"
    /\ UNCHANGED <<tool_chat_history, agent_chat_history, tool_call_id, turn, tool_calls,
                 idx, observations, response, dbVars, toolVars>>

\* Line 229 raising: the agent history keeps what the turn appended so far.
CompleteAgentRaises ==
    /\ pc = "answer"
    /\ \E e \in CompletionFailures :
          trace' = trace \o <<Ev("complete_agent_raise", 0, 0, NoResult)>>
    /\ pc' = "raised"
    /\ UNCHANGED <<tool_chat_history, agent_chat_history, tool_call_id, turn, tool_calls,
                 idx, observations, response, dbVars, toolVars>>

\* main, lines 878-883: the exception is caught, the fixed reply "I'm having
\* trouble processing that request" is printed and the loop goes on.
MainLoopExcept ==
    /\ pc = "raised"
    /\ pc' = "idle"
    /\ tool_calls' = NoCalls
    /\ idx' = 1
    /\ observations' = <<>>
    /\ response' = NoResponse
    /\ trace' = <<Event("generic_reply")>>
    /\ UNCHANGED <<tool_chat_history, agent_chat_history, tool_call_id, turn,
                 dbVars, toolVars>>

(***************************************************************************)
(* Strings of the tools.  None is Python's None; the other strings are     *)
(* tokens, with lower() and the substring test `a in b` given by tables    *)
(* that cover the vocabulary of the model.                                 *)
(***************************************************************************)
None == "<None>"
Truthy(x) == x # None /\ x # ""

LowerTable ==
    ("Chicago" :> "chicago") @@ ("Boston" :> "boston") @@ ("Paris" :> "paris")
    @@ ("Chi" :> "chi") @@ ("Italian" :> "italian") @@ ("Mexican" :> "mexican")
    @@ ("Ital" :> "ital") @@ ("Casual" :> "casual") @@ ("Sushi" :> "sushi")
    @@ ("Romantic" :> "romantic") @@ ("Date night" :> "date night")
    @@ ("Family dinner" :> "family dinner")
    @@ ("Business celebration" :> "business celebration") @@ ("Party" :> "party")
    @@ ("Nobu" :> "nobu") @@ ("Nobu Downtown" :> "nobu downtown") @@ ("Zuma" :> "zuma")
    @@ ("Lively" :> "lively") @@ ("Pizza Hut" :> "pizza hut")
    @@ ("Make a RESERVATION" :> "make a reservation")
Lower(x) == IF x \in DOMAIN LowerTable THEN LowerTable[x] ELSE x

ProperSubstrings ==
    { <<"chi", "chicago">>, <<"ital", "italian">>, <<"date", "date night">>,
      <<"family", "family dinner">>, <<"business", "business celebration">>,
      <<"celebration", "business celebration">>, <<"nobu", "nobu downtown">>,
      <<"york", "new york">>, <<"york", "new york city">>,
      <<"new york", "new york city">>, <<"la", "lax">>, <<"la", "las vegas">>,
      <<"vegas", "las vegas">>, <<"dc", "washington dc">>, <<"sf", "sfo">>,
      <<"book", "book a table for 4">>, <<"book", "notebook cafe">>,
      <<"reservation", "make a reservation">> }
\* Python's `a in b` for strings.
In(a, b) == a = "" \/ a = b \/ <<a, b>> \in ProperSubstrings

(***************************************************************************)
(* The catalog: initialize_db_metadata reads it from the restaurants       *)
(* table, whose cities, cuisines and moods no tool changes.                *)
(***************************************************************************)
Rows(table) == { table[i] : i \in 1..Len(table) }
AVAILABLE_CITIES == { Lower(r.city) : r \in Rows(restaurants) }
AVAILABLE_CUISINES == { Lower(r.cuisine) : r \in Rows(restaurants) }
AVAILABLE_MOODS == { Lower(r.mood) : r \in Rows(restaurants) }

city_variations ==
    [ c \in {"new york", "los angeles", "san francisco", "las vegas", "washington dc"} |->
        CASE c = "new york" -> <<"nyc", "new york city", "manhattan">>
          [] c = "los angeles" -> <<"la", "l.a.", "lax">>
          [] c = "san francisco" -> <<"sf", "san fran">>
          [] c = "las vegas" -> <<"vegas">>
          [] c = "washington dc" -> <<"washington d.c.", "dc", "d.c.">> ]

\* The variations of the cities of the catalog, each with its city.
Variations ==
    UNION { { <<city_variations[c][i], c>> : i \in 1..Len(city_variations[c]) } :
            c \in AVAILABLE_CITIES \cap DOMAIN city_variations }

\* CITY_MAPPINGS: every city to itself, then every variation to its city.
CITY_MAPPINGS ==
    [ k \in AVAILABLE_CITIES \cup { p[1] : p \in Variations } |->
        IF \E p \in Variations : p[1] = k
        THEN (CHOOSE p \in Variations : p[1] = k)[2]
        ELSE k ]

\* normalize_city: the values it can return.  The partial match takes the
\* first key of CITY_MAPPINGS in dict order; the cities were inserted in the
\* iteration order of a set, so any matching key may come first.
normalize_city(city) ==
    IF ~Truthy(city) THEN {None}
    ELSE LET city_lower == Lower(city)
             partial == { k \in DOMAIN CITY_MAPPINGS :
                            In(k, city_lower) \/ In(city_lower, k) }
         IN IF city_lower \in DOMAIN CITY_MAPPINGS THEN {CITY_MAPPINGS[city_lower]}
            ELSE IF partial # {} THEN { CITY_MAPPINGS[k] : k \in partial }
            ELSE {city}

\* normalize_cuisine: the values it can return (AVAILABLE_CUISINES is a set,
\* so any partial match may come first).
normalize_cuisine(cuisine) ==
    IF ~Truthy(cuisine) THEN {None}
    ELSE LET cuisine_lower == Lower(cuisine)
             partial == { c \in AVAILABLE_CUISINES :
                            In(cuisine_lower, c) \/ In(c, cuisine_lower) }
         IN IF cuisine_lower \in AVAILABLE_CUISINES THEN {cuisine_lower}
            ELSE IF partial # {} THEN partial
            ELSE {cuisine}

\* A row of restaurants.
Restaurant(id, name, city, cuisine, mood, capacity, slots) ==
    [id |-> id, name |-> name, city |-> city, cuisine |-> cuisine, mood |-> mood,
     available_capacity |-> capacity, available_reservations |-> slots]

(***************************************************************************)
(* book_restaurant.                                                        *)
(***************************************************************************)
\* Python truth of a value: None, 0 and "" are false.
PyTruthy(v) ==
    CASE v.t = "none" -> FALSE
      [] v.t = "int" -> v.n # 0
      [] OTHER -> v.s # ""

\* Texts longer than the 20 characters of reservations.contact_number.
LongTexts == {"555-0100-0199-0100-0199"}

\* Lines 536-551: the fields reported missing, in the order of the checks.
MissingFields(a) ==
    (IF ~Truthy(a.restaurant_name) THEN <<"restaurant name">> ELSE <<>>)
    \o (IF ~Truthy(a.reservation_time) THEN <<"reservation time">> ELSE <<>>)
    \o (IF ~PyTruthy(a.party_size) THEN <<"party size">> ELSE <<>>)
    \o (IF ~IntOf(a.party_size).ok THEN <<"valid party size (must be a number)">> ELSE <<>>)
    \o (IF ~Truthy(a.customer_name) THEN <<"customer name">> ELSE <<>>)
    \o (IF ~Truthy(a.contact_number) THEN <<"contact number">> ELSE <<>>)

\* Lines 571-580: the rows the SELECT finds; fetchone returns one of them.
FindRestaurant(table, restaurant_name, normalized_city) ==
    { r \in Rows(table) :
        /\ In(Lower(restaurant_name), Lower(r.name))
        /\ (Truthy(normalized_city) => Lower(r.city) = Lower(normalized_city)) }

NoRow == Restaurant(0, "", "", "", "", 0, <<>>)
NoData == [null |-> TRUE, confirmation_id |-> 0, restaurant_id |-> 0, time |-> "",
           party_size |-> 0]
BookResult(status, data, missing) ==
    [status |-> status, data |-> data, missing_fields |-> missing]

\* Mutant of Remove: every x is dropped.
RemoveAll(list, x) == SelectSeq(list, LAMBDA y : y # x)

\* list.remove(x): the list without the first x.
Remove(list, x) ==
    LET i == CHOOSE k \in 1..Len(list) :
                 list[k] = x /\ \A j \in 1..(k - 1) : list[j] # x
    IN SubSeq(list, 1, i - 1) \o SubSeq(list, i + 1, Len(list))

\* Line 623: the capacity written back.
NewCapacity(restaurant, party_size) == restaurant.available_capacity - party_size

\* Lines 629-633: UPDATE restaurants ... WHERE id = %s.
UpdateRestaurant(table, id, new_capacity, available_reservations) ==
    [i \in 1..Len(table) |->
        IF table[i].id = id
        THEN [table[i] EXCEPT !.available_capacity = new_capacity,
                              !.available_reservations = available_reservations]
        ELSE table[i]]

\* Lines 594-611: the two checks made on the row found.
TimeAvailable(restaurant, reservation_time) ==
    \E k \in 1..Len(restaurant.available_reservations) :
        restaurant.available_reservations[k] = reservation_time
\* Mutant of EnoughSeats: the capacity is not checked.
EnoughSeatsNoCheck(restaurant, party_size) == TRUE

EnoughSeats(restaurant, party_size) == ~(party_size > restaurant.available_capacity)

\* book_restaurant with the connection up or down (conn) and fetchone
\* returning `restaurant` (NoRow when the SELECT finds nothing): the result
\* and the tables after the call.
book_restaurant(a, conn, normalized_city, restaurant) ==
    LET same(result) == [result |-> result, restaurants |-> restaurants,
                         reservations |-> reservations]
        party_size == IntOf(a.party_size).v.n
    IN IF MissingFields(a) # <<>>
       THEN same(BookResult("incomplete", NoData, MissingFields(a)))
       ELSE IF ~conn
       THEN same(BookResult("error", NoData, <<>>))
       ELSE IF restaurant = NoRow
       THEN same(BookResult("not_found", NoData, <<>>))
       ELSE IF ~TimeAvailable(restaurant, a.reservation_time)
       THEN same(BookResult("unavailable_time", NoData, <<>>))
       ELSE IF ~EnoughSeats(restaurant, party_size)
       THEN same(BookResult("insufficient_capacity", NoData, <<>>))
       ELSE IF a.contact_number \in LongTexts
       THEN same(BookResult("error", NoData, <<>>))
       ELSE LET reservation_id == Len(reservations) + 1 IN
            [result |->
                BookResult("success",
                           [null |-> FALSE, confirmation_id |-> reservation_id,
                            restaurant_id |-> restaurant.id,
                            time |-> a.reservation_time, party_size |-> party_size],
                           <<>>),
             restaurants |->
                UpdateRestaurant(restaurants, restaurant.id,
                                 NewCapacity(restaurant, party_size),
                                 Remove(restaurant.available_reservations,
                                        a.reservation_time)),
             reservations |->
                Append(reservations,
                       [id |-> reservation_id, restaurant_id |-> restaurant.id,
                        customer_name |-> a.customer_name,
                        contact_number |-> a.contact_number,
                        party_size |-> party_size,
                        reservation_time |-> a.reservation_time])]

\* The calls the model makes.
BookCalls ==
    [ restaurant_name : {"nobu"},
      reservation_time : {"7:00 PM", "9:00 PM"},
      party_size : {PyInt(2), PyInt(5), PyInt(-1), PyStr("2"), PyStr("abc")},
      customer_name : {"Ann"},
      contact_number : {"555-0100", "555-0100-0199-0100-0199"},
      city : {None, "Boston"} ]

NoBookCall ==
    [called |-> FALSE,
     args |-> [restaurant_name |-> "", reservation_time |-> "", party_size |-> PyNone,
               customer_name |-> "", contact_number |-> "", city |-> None],
     restaurant |-> NoRow, restaurants_before |-> <<>>, reservations_before |-> <<>>,
     result |-> BookResult("", NoData, <<>>)]

\* One call of book_restaurant.
BookRestaurant ==
    \E a \in BookCalls, conn \in BOOLEAN :
      \E normalized_city \in (IF Truthy(a.city) THEN normalize_city(a.city) ELSE {None}) :
        LET found == FindRestaurant(restaurants, a.restaurant_name, normalized_city) IN
        \E restaurant \in (IF found = {} THEN {NoRow} ELSE found) :
          LET out == book_restaurant(a, conn, normalized_city, restaurant) IN
          /\ restaurants' = out.restaurants
          /\ reservations' = out.reservations
          /\ book_last' = [called |-> TRUE, args |-> a,
                           restaurant |-> IF MissingFields(a) = <<>> /\ conn
                                          THEN restaurant ELSE NoRow,
                           restaurants_before |-> restaurants,
                           reservations_before |-> reservations,
                           result |-> out.result]
          /\ UNCHANGED <<agentVars, rec_last, rank_last, tool_last, bookings>>

\* The restaurants tables the bookings start from.
BookTables ==
    { << Restaurant(1, "Nobu", "Chicago", "Italian", "romantic", c,
                    <<"7:00 PM", "8:00 PM", "7:00 PM">>),
         Restaurant(2, "Nobu Downtown", "Chicago", "Mexican", "casual", 2, <<"7:00 PM">>),
         Restaurant(3, "Zuma", "Boston", "Italian", "casual", 6, <<"8:00 PM">>) >> :
      c \in {1, 4} }


(***************************************************************************)
(* get_recommendations.                                                    *)
(***************************************************************************)
\* The strings of the model in the order sorted() gives them.
Alphabetical ==
    <<"", "austin", "boston", "casual", "chicago", "dallas", "denver", "houston",
      "italian", "lively", "mexican", "miami", "orlando", "paris", "phoenix",
      "romantic", "seattle", "sophisticated", "sushi", "tampa">>

\* Mutant of Sorted: descending order.
SortedDescending(set) ==
    LET n == Len(Alphabetical) IN
    SelectSeq([i \in 1..n |-> Alphabetical[n + 1 - i]], LAMBDA x : x \in set)

Sorted(set) == SelectSeq(Alphabetical, LAMBDA x : x \in set)

\* Mutant of Prefix: the whole list.
PrefixAll(list, n) == list

Prefix(list, n) == SubSeq(list, 1, IF Len(list) < n THEN Len(list) ELSE n)

CityLimit == 10     \* available_cities[:10]
TopResults == 5     \* result_data[:5]

\* Lines 385-391: mood_mapping, in the order of the dict.
mood_mapping ==
    << <<"date", "romantic">>, <<"business", "sophisticated">>, <<"family", "casual">>,
       <<"friends", "casual">>, <<"celebration", "lively">> >>

\* Mutant of DeriveMood: the keys are tried longest first.
DeriveMoodLongestFirst(occasion) ==
    LET order == <<5, 2, 4, 3, 1>>
        hits == { n \in 1..5 : In(mood_mapping[order[n]][1], Lower(occasion)) }
    IN IF ~Truthy(occasion) \/ hits = {} THEN None
       ELSE mood_mapping[order[CHOOSE n \in hits : \A j \in hits : n <= j]][2]

\* Lines 393-399: the value of the first key contained in the occasion.
DeriveMood(occasion) ==
    IF ~Truthy(occasion) THEN None
    ELSE LET hits == { i \in 1..Len(mood_mapping) :
                         In(mood_mapping[i][1], Lower(occasion)) }
         IN IF hits = {} THEN None
            ELSE mood_mapping[CHOOSE i \in hits : \A j \in hits : i <= j][2]

\* A query is the sequence of the columns its WHERE clause constrains, one
\* %s each; params are the values bound to them, by position.
\* Mutant of Holds: the capacity clause is not enforced.
HoldsWithoutCapacity(column, row, p) ==
    CASE column = "available_capacity" -> TRUE
      [] column = "city" -> Lower(row.city) = Lower(p.s)
      [] column = "cuisine" -> Lower(row.cuisine) = Lower(p.s)
      [] column = "mood" -> Lower(row.mood) = Lower(p.s)

Holds(column, row, p) ==
    CASE column = "available_capacity" -> row.available_capacity >= p.n
      [] column = "city" -> Lower(row.city) = Lower(p.s)
      [] column = "cuisine" -> Lower(row.cuisine) = Lower(p.s)
      [] column = "mood" -> Lower(row.mood) = Lower(p.s)

\* cur.execute raises when the parameters are not one per %s, or when a
\* text is bound to the integer column or an integer to LOWER().
ExecuteRaises(query, params) ==
    \/ Len(query) # Len(params)
    \/ \E i \in 1..Len(query) : (query[i] = "available_capacity") # (params[i].t = "int")

\* cur.execute then cur.fetchall: the rows in the order the table holds them.
Execute(table, query, params) ==
    SelectSeq(table, LAMBDA row : \A i \in 1..Len(query) : Holds(query[i], row, params[i]))

\* query.replace(" AND LOWER(<column>) = LOWER(%s)", "").
Replace(query, column) == SelectSeq(query, LAMBDA c : c # column)

\* Mutant of NeedsRelaxing: the next level is queried whatever was found.
NeedsRelaxingAlways(rows) == TRUE

\* Lines 425, 434, 445: `not restaurants`.
NeedsRelaxing(rows) == rows = <<>>

\* list.sort(key=key, reverse=True), with keys[i] the key of list[i]:
\* descending and stable, so that an element moves before exactly the
\* elements of smaller key that preceded it.
SortReverse(list, keys) ==
    LET n == Len(list)
        pos(i) == 1 + Cardinality({ j \in 1..n :
                        \/ keys[j] > keys[i]
                        \/ keys[j] = keys[i] /\ j < i })
    IN [p \in 1..n |-> list[CHOOSE i \in 1..n : pos(i) = p]]

\* The three sort keys of lines 476, 480 and 484 (True is 1, False is 0).
SlotCount(x) == Len(x.available_reservations)
MoodMatch(x, mood) == IF Lower(x.mood) = Lower(mood) THEN 1 ELSE 0
CuisineMatch(x, cuisine) == IF Lower(x.cuisine) = Lower(cuisine) THEN 1 ELSE 0

\* Mutant of Rank: the mood sort is made last.
RankMoodLast(result_data, mood, normalized_cuisine) ==
    LET bySlots == SortReverse(result_data, [i \in 1..Len(result_data) |-> SlotCount(result_data[i])])
        byCuisine == IF Truthy(normalized_cuisine)
                     THEN SortReverse(bySlots, [i \in 1..Len(bySlots) |->
                                                    CuisineMatch(bySlots[i], normalized_cuisine)])
                     ELSE bySlots
    IN IF Truthy(mood)
       THEN SortReverse(byCuisine, [i \in 1..Len(byCuisine) |-> MoodMatch(byCuisine[i], mood)])
       ELSE byCuisine

\* Lines 473-484: the three sorts, each on the list the one before left.
Rank(result_data, mood, normalized_cuisine) ==
    IF result_data = <<>> THEN <<>>
    ELSE LET bySlots == SortReverse(result_data, [i \in 1..Len(result_data) |-> SlotCount(result_data[i])])
             byMood == IF Truthy(mood)
                       THEN SortReverse(bySlots, [i \in 1..Len(bySlots) |-> MoodMatch(bySlots[i], mood)])
                       ELSE bySlots
         IN IF Truthy(normalized_cuisine)
            THEN SortReverse(byMood, [i \in 1..Len(byMood) |->
                                           CuisineMatch(byMood[i], normalized_cuisine)])
            ELSE byMood

NoSuggestions == [null |-> TRUE, available_cuisines |-> <<>>, city_restaurant_count |-> 0]
NoQueryParams ==
    [city |-> None, normalized_city |-> None, occasion |-> None, derived_mood |-> None,
     cuisine_preference |-> None, normalized_cuisine |-> None, group_size |-> PyNone]
NoNormalization == [city |-> FALSE, cuisine |-> FALSE]

\* The dict get_recommendations returns.
RecResult(status, message, count, query_params, normalization_info, fallback_suggestions, available_cities, data) ==
    [status |-> status, message |-> message, count |-> count,
     query_params |-> query_params, normalization_info |-> normalization_info,
     fallback_suggestions |-> fallback_suggestions,
     available_cities |-> available_cities, data |-> data, data_is_none |-> FALSE]
\* Lines 353, 361-365, 511: "data": None.
RecError(message) ==
    [RecResult("error", message, 0, NoQueryParams, NoNormalization, NoSuggestions,
               <<>>, <<>>) EXCEPT !.data_is_none = TRUE]

\* Lines 401-442: the queries made for the data, one after the other.  The
\* outcome is [raised, rows, levels]: levels are the queries sent, in order,
\* and rows what the last of them returned.
Queried(outcome, level, table, query, params) ==
    IF ExecuteRaises(query, params)
    THEN [raised |-> TRUE, rows |-> <<>>, levels |-> Append(outcome.levels, level)]
    ELSE [raised |-> FALSE, rows |-> Execute(table, query, params),
          levels |-> Append(outcome.levels, level)]

RelaxedSearch(table, group_size, normalized_city, normalized_cuisine, mood) ==
    LET query == (IF group_size.t # "none" THEN <<"available_capacity">> ELSE <<>>)
                 \o (IF Truthy(normalized_city) THEN <<"city">> ELSE <<>>)
                 \o (IF Truthy(normalized_cuisine) THEN <<"cuisine">> ELSE <<>>)
                 \o (IF Truthy(mood) THEN <<"mood">> ELSE <<>>)
        params == (IF group_size.t # "none" THEN <<group_size>> ELSE <<>>)
                  \o (IF Truthy(normalized_city) THEN <<PyStr(normalized_city)>> ELSE <<>>)
                  \o (IF Truthy(normalized_cuisine) THEN <<PyStr(normalized_cuisine)>> ELSE <<>>)
                  \o (IF Truthy(mood) THEN <<PyStr(mood)>> ELSE <<>>)
        full == Queried([levels |-> <<>>], "full", table, query, params)
        noMood ==
            IF ~full.raised /\ NeedsRelaxing(full.rows) /\ Truthy(mood)
            THEN Queried(full, "mood_dropped", table, Replace(query, "mood"),
                         SelectSeq(params, LAMBDA p : p # PyStr(mood)))
            ELSE full
        noCuisine ==
            IF ~noMood.raised /\ NeedsRelaxing(noMood.rows) /\ Truthy(normalized_cuisine)
            THEN IF Truthy(mood)
                 THEN Queried(noMood, "cuisine_dropped", table,
                              Replace(Replace(query, "cuisine"), "mood"),
                              SelectSeq(params, LAMBDA p : p # PyStr(mood)
                                                           /\ p # PyStr(normalized_cuisine)))
                 ELSE Queried(noMood, "cuisine_dropped", table, Replace(query, "cuisine"),
                              SelectSeq(params, LAMBDA p : p # PyStr(normalized_cuisine)))
            ELSE noMood
    IN noCuisine

\* Lines 444-461: the city's restaurants, asked for when nothing was found.
FallbackSuggestions(table, normalized_city) ==
    LET city_restaurants == Execute(table, <<"city">>, <<PyStr(normalized_city)>>)
    IN [null |-> FALSE,
        available_cuisines |->
            Sorted({ Lower(city_restaurants[i].cuisine) : i \in
                       { k \in 1..Len(city_restaurants) : city_restaurants[k].cuisine # "" } }),
        city_restaurant_count |-> Len(city_restaurants)]

\* get_recommendations with the connection up or down and the values the
\* two normalizations returned: the dict returned and the queries sent.
get_recommendations(a, conn, normalized_city, normalized_cuisine) ==
    LET none(result) == [result |-> result, levels |-> <<>>, ranked |-> <<>>] IN
    IF ~conn THEN none(RecError("Database connection error"))
    ELSE IF a.group_size.t = "str" /\ ~IntOf(a.group_size).ok
    THEN none(RecError("Invalid group size"))
    ELSE IF ~Truthy(normalized_city)
    THEN none([RecResult("insufficient_info",
                         "Please specify a city for restaurant recommendations", 0,
                         NoQueryParams, NoNormalization, NoSuggestions,
                         Prefix(Sorted(AVAILABLE_CITIES), CityLimit), <<>>)
               EXCEPT !.data_is_none = TRUE])
    ELSE LET group_size == IF a.group_size.t = "none" THEN PyNone
                           ELSE IntOf(a.group_size).v
             mood == DeriveMood(a.occasion)
             found == RelaxedSearch(restaurants, group_size, normalized_city,
                                    normalized_cuisine, mood)
             cityOnly == NeedsRelaxing(found.rows) /\ Truthy(normalized_city)
             result_data == Rank(found.rows, mood, normalized_cuisine)
         IN IF found.raised
            THEN [result |-> RecError("query"), levels |-> found.levels, ranked |-> <<>>]
            ELSE [result |->
                    RecResult(IF result_data # <<>> THEN "success" ELSE "no_results", "",
                              Len(result_data),
                              [city |-> a.city, normalized_city |-> normalized_city,
                               occasion |-> a.occasion, derived_mood |-> mood,
                               cuisine_preference |-> a.cuisine_preference,
                               normalized_cuisine |-> normalized_cuisine,
                               group_size |-> group_size],
                              [city |-> Truthy(a.city) /\ Truthy(normalized_city)
                                        /\ Lower(a.city) # normalized_city,
                               cuisine |-> Truthy(a.cuisine_preference)
                                           /\ Truthy(normalized_cuisine)
                                           /\ Lower(a.cuisine_preference) # normalized_cuisine],
                              IF cityOnly
                              THEN FallbackSuggestions(restaurants, normalized_city)
                              ELSE NoSuggestions,
                              <<>>,
                              Prefix(result_data, TopResults)),
                  levels |-> IF cityOnly THEN Append(found.levels, "city_only")
                             ELSE found.levels,
                  ranked |-> result_data]

MaxRows == 3        \* rows of the restaurants table

\* The calls the model makes.
RecCalls ==
    [ city : {None, "Chicago", "Chi", "Paris"},
      occasion : {None, "Date night", "Family dinner", "Business celebration", "Party"},
      cuisine_preference : {None, "Italian", "Ital", "casual", "Sushi"},
      group_size : {PyNone, PyInt(4), PyStr("4"), PyStr("abc")} ]

NoRecArgs == [city |-> None, occasion |-> None, cuisine_preference |-> None,
              group_size |-> PyNone]
NoRecCall ==
    [called |-> FALSE, args |-> NoRecArgs, conn |-> FALSE, normalized_city |-> None,
     normalized_cuisine |-> None, levels |-> <<>>, ranked |-> <<>>,
     result |-> RecError("")]

\* One call of get_recommendations: the arguments are rec_last.args.
GetRecommendations ==
    /\ ~rec_last.called
    /\ LET a == rec_last.args IN
       \E normalized_city \in (IF Truthy(a.city) THEN normalize_city(a.city) ELSE {None}),
          normalized_cuisine \in (IF Truthy(a.cuisine_preference)
                                  THEN normalize_cuisine(a.cuisine_preference)
                                  ELSE {None}) :
          LET out == get_recommendations(a, rec_last.conn, normalized_city,
                                         normalized_cuisine) IN
          rec_last' = [rec_last EXCEPT !.called = TRUE,
                                       !.normalized_city = normalized_city,
                                       !.normalized_cuisine = normalized_cuisine,
                                       !.levels = out.levels,
                                       !.ranked = out.ranked,
                                       !.result = out.result]
    /\ UNCHANGED <<agentVars, dbVars, book_last, rank_last, tool_last, bookings>>

\* The kinds of row the tables of the recommendations are made of.
RecRows ==
    { Restaurant(1, "Nobu", "Chicago", "Italian", "romantic", 4, <<"7:00 PM", "8:00 PM">>),
      Restaurant(2, "Roma", "Chicago", "Italian", "Casual", 2,
                 <<"6:00 PM", "7:00 PM", "8:00 PM">>),
      Restaurant(3, "Cantina", "Chicago", "Mexican", "romantic", 6,
                 <<"5:00 PM", "6:00 PM", "7:00 PM", "8:00 PM", "9:00 PM">>),
      Restaurant(4, "Taco", "Chicago", "Mexican", "casual", 4, <<>>),
      Restaurant(5, "Zuma", "Boston", "Italian", "lively", 6, <<"8:00 PM">>) }

\* The tables of n distinct rows, in any order.
RecTables(n) ==
    { t \in [1..n -> RecRows] : \A i, j \in 1..n : t[i] = t[j] => i = j }

\* A table of more cities than available_cities[:10] keeps, and a table of
\* more restaurants of one city than result_data[:5] keeps.
ManyCities ==
    [ i \in 1..11 |->
        Restaurant(i, "", <<"tampa", "seattle", "phoenix", "orlando", "miami", "houston",
                            "denver", "dallas", "Chicago", "Boston", "austin">>[i],
                   "Italian", "casual", 4, <<"7:00 PM">>) ]

ManyRestaurants ==
    [ i \in 1..7 |->
        Restaurant(i, "", "Chicago", "Italian",
                   IF i \in {2, 5} THEN "romantic" ELSE "casual",
                   IF i = 3 THEN 2 ELSE 4 + (i % 2) * 2,
                   IF i \in {1, 6} THEN <<"7:00 PM", "8:00 PM">> ELSE <<"7:00 PM">>) ]

LargeTables == {ManyCities, ManyRestaurants}

(***************************************************************************)
(* The ranking of lines 473-484 on its own: any list of rows, any mood and *)
(* any cuisine.                                                            *)
(***************************************************************************)
MaxRanked == 3      \* rows of a ranked list

RankRow(id, slots, mood, cuisine) ==
    Restaurant(id, "", "Chicago", cuisine, mood, 4, slots)
RankSlots == { <<"7:00 PM", "8:00 PM">>, <<"6:00 PM", "7:00 PM", "8:00 PM">>,
               <<"5:00 PM", "6:00 PM", "7:00 PM", "8:00 PM", "9:00 PM">> }
\* The lists of n rows ranked: the rows are numbered in the order of the list.
RankLists(n) ==
    { [i \in 1..n |-> RankRow(i, s[i], m[i], c[i])] :
        s \in [1..n -> RankSlots], m \in [1..n -> {"romantic", "casual"}],
        c \in [1..n -> {"Italian", "Mexican"}] }

NoRanking == [done |-> FALSE, result_data |-> <<>>, mood |-> None,
              normalized_cuisine |-> None, ranked |-> <<>>]

\* The sorts applied to the list of rank_last.
RankResults ==
    /\ ~rank_last.done
    /\ rank_last' = [rank_last EXCEPT !.done = TRUE,
                        !.ranked = Rank(rank_last.result_data, rank_last.mood,
                                        rank_last.normalized_cuisine)]
    /\ UNCHANGED <<agentVars, dbVars, book_last, rec_last, tool_last, bookings>>

(***************************************************************************)
(* The dicts the tools return.  A dict is a record with the keys of the    *)
(* dict; the value under "data" is NoneData for None and Data(v) for v.    *)
(***************************************************************************)
NoneData == [none |-> TRUE, value |-> <<>>]
Data(value) == [none |-> FALSE, value |-> value]

\* Mutant of SearchStatus: an empty result is reported as no_results.
SearchStatusNoResults(result_data) == IF result_data = <<>> THEN "no_results" ELSE "success"

\* Line 249: the status of a query that executed, whatever it found.
SearchStatus(result_data) == "success"

\* search_restaurants, lines 184-265.
search_restaurants(a, conn, normalized_city, normalized_cuisine) ==
    IF ~conn
    THEN [status |-> "error", message |-> "Database connection error", data |-> NoneData]
    ELSE LET query == (IF Truthy(normalized_city) THEN <<"city">> ELSE <<>>)
                      \o (IF Truthy(normalized_cuisine) THEN <<"cuisine">> ELSE <<>>)
                      \o (IF Truthy(a.mood) THEN <<"mood">> ELSE <<>>)
             params == (IF Truthy(normalized_city) THEN <<PyStr(normalized_city)>> ELSE <<>>)
                       \o (IF Truthy(normalized_cuisine)
                           THEN <<PyStr(normalized_cuisine)>> ELSE <<>>)
                       \o (IF Truthy(a.mood) THEN <<PyStr(a.mood)>> ELSE <<>>)
         IN IF ExecuteRaises(query, params)
            THEN [status |-> "error", message |-> "query", data |-> NoneData]
            ELSE LET result_data == Execute(restaurants, query, params) IN
                 [status |-> SearchStatus(result_data),
                  count |-> Len(result_data),
                  query_params |-> [city |-> a.city, normalized_city |-> normalized_city,
                                    cuisine |-> a.cuisine,
                                    normalized_cuisine |-> normalized_cuisine,
                                    mood |-> a.mood],
                  normalization_info |->
                      [city |-> Truthy(a.city) /\ Truthy(normalized_city)
                                /\ Lower(a.city) # normalized_city,
                       cuisine |-> Truthy(a.cuisine) /\ Truthy(normalized_cuisine)
                                   /\ Lower(a.cuisine) # normalized_cuisine],
                  data |-> Data(result_data)]

\* get_restaurant_details, lines 267-335, with fetchone returning
\* `restaurant` (NoRow when the SELECT finds nothing).
get_restaurant_details(a, conn, normalized_city, restaurant) ==
    IF ~conn
    THEN [status |-> "error", message |-> "Database connection error", data |-> NoneData]
    ELSE IF restaurant = NoRow
    THEN [status |-> "not_found", message |-> "Restaurant not found",
          query_params |-> [restaurant_name |-> a.restaurant_name, city |-> a.city,
                            normalized_city |-> normalized_city],
          data |-> NoneData]
    ELSE [status |-> "success",
          query_params |-> [restaurant_name |-> a.restaurant_name, city |-> a.city,
                            normalized_city |-> normalized_city],
          data |-> Data(restaurant)]

\* check_reservation, lines 664-719: the reservation joined with its
\* restaurant; a number that is no integer makes the query raise.
check_reservation(confirmation_number, conn) ==
    IF ~conn
    THEN [status |-> "error", message |-> "Database connection error", data |-> NoneData]
    ELSE IF confirmation_number.t # "int"
    THEN [status |-> "error", message |-> "query", data |-> NoneData]
    ELSE LET found == { i \in 1..Len(reservations) :
                          /\ reservations[i].id = confirmation_number.n
                          /\ \E r \in Rows(restaurants) :
                                r.id = reservations[i].restaurant_id }
         IN IF found = {}
            THEN [status |-> "not_found", message |-> "Reservation not found",
                  confirmation_number |-> confirmation_number, data |-> NoneData]
            ELSE [status |-> "success",
                  data |-> Data(reservations[CHOOSE i \in found : TRUE])]

\* validate_booking_info, lines 721-781.
BookingFields(a) ==
    (IF ~Truthy(a.restaurant_name) THEN <<"restaurant_name">> ELSE <<>>)
    \o (IF ~Truthy(a.reservation_time) THEN <<"reservation_time">> ELSE <<>>)
    \o (IF ~PyTruthy(a.party_size) THEN <<"party_size">>
        ELSE IF ~IntOf(a.party_size).ok THEN <<"valid_party_size">> ELSE <<>>)
    \o (IF ~Truthy(a.customer_name) THEN <<"customer_name">> ELSE <<>>)
    \o (IF ~Truthy(a.contact_number) THEN <<"contact_number">> ELSE <<>>)
    \o (IF ~Truthy(a.city) THEN <<"city">> ELSE <<>>)

validate_booking_info(a) ==
    [status |-> IF BookingFields(a) # <<>> THEN "missing_fields" ELSE "complete",
     missing_fields |-> BookingFields(a),
     provided_fields |->
        { k \in {"restaurant_name", "reservation_time", "customer_name",
                 "contact_number", "city"} : a[k] # None }
        \cup (IF a.party_size.t # "none" /\ (PyTruthy(a.party_size) => IntOf(a.party_size).ok)
              THEN {"party_size"} ELSE {})]

\* progressive_restaurant_inquiry, lines 783-820; known_info is the set of
\* the keys of the dict, {} also for None.
BookingWords(query) == In("book", Lower(query)) \/ In("reservation", Lower(query))

\* Mutant of MissingInfo: the party size is asked for before the city.
MissingInfoPartyFirst(query, known_info) ==
    (IF "party_size" \notin known_info /\ BookingWords(query)
     THEN <<"party_size">> ELSE <<>>)
    \o (IF "city" \notin known_info THEN <<"city">> ELSE <<>>)
    \o (IF "cuisine" \notin known_info THEN <<"cuisine">> ELSE <<>>)
    \o (IF "time" \notin known_info /\ BookingWords(query) THEN <<"time">> ELSE <<>>)

\* Lines 796-809: the missing fields in the order of the checks.
MissingInfo(query, known_info) ==
    (IF "city" \notin known_info THEN <<"city">> ELSE <<>>)
    \o (IF "party_size" \notin known_info /\ BookingWords(query)
        THEN <<"party_size">> ELSE <<>>)
    \o (IF "cuisine" \notin known_info THEN <<"cuisine">> ELSE <<>>)
    \o (IF "time" \notin known_info /\ BookingWords(query) THEN <<"time">> ELSE <<>>)

progressive_restaurant_inquiry(query, known_info) ==
    [query |-> query,
     known_info |-> known_info,
     missing_info |-> MissingInfo(query, known_info),
     is_booking_intent |-> BookingWords(query),
     next_field_to_ask |-> IF MissingInfo(query, known_info) # <<>>
                           THEN MissingInfo(query, known_info)[1] ELSE None,
     can_recommend |-> "city" \in known_info]

\* get_available_options, lines 822-838.
get_available_options ==
    [status |-> "success",
     data |-> Data([cities |-> Sorted(AVAILABLE_CITIES),
                    cuisines |-> Sorted(AVAILABLE_CUISINES),
                    moods |-> Sorted(AVAILABLE_MOODS)])]

\* The dict of book_restaurant, from the return statement of each status.
BookDict(result) ==
    LET data == IF result.data.null THEN NoneData ELSE Data(result.data) IN
    CASE result.status = "incomplete" ->
            [status |-> result.status, message |-> "Missing required information",
             missing_fields |-> result.missing_fields, data |-> data]
      [] result.status = "not_found" ->
            [status |-> result.status, message |-> "Restaurant not found",
             query_params |-> <<>>, data |-> data]
      [] result.status = "unavailable_time" ->
            [status |-> result.status, message |-> "Requested time is not available",
             available_times |-> <<>>, data |-> data]
      [] result.status = "insufficient_capacity" ->
            [status |-> result.status, message |-> "Not enough seats available",
             available_capacity |-> 0, requested_size |-> 0, data |-> data]
      [] OTHER -> [status |-> result.status, message |-> "", data |-> data]

\* The dict of get_recommendations, from the return statement of each status.
RecDict(result) ==
    LET data == IF result.data_is_none THEN NoneData ELSE Data(result.data) IN
    CASE result.status = "error" ->
            [status |-> result.status, message |-> result.message, data |-> data]
      [] result.status = "insufficient_info" ->
            [status |-> result.status, message |-> result.message,
             available_cities |-> result.available_cities, data |-> data]
      [] OTHER ->
            [status |-> result.status, count |-> result.count,
             query_params |-> result.query_params,
             normalization_info |-> result.normalization_info,
             fallback_suggestions |-> result.fallback_suggestions, data |-> data]

(***************************************************************************)
(* The eight tools called one after the other on one database.             *)
(***************************************************************************)
NoToolCall == [called |-> FALSE, tool |-> "", args |-> <<>>, conn |-> FALSE, result |-> <<>>]
Called(tool, args, conn, result) ==
    [called |-> TRUE, tool |-> tool, args |-> args, conn |-> conn, result |-> result]

SearchCalls ==
    [ city : {None, "Chicago", "Paris"}, cuisine : {None, "Italian", "Sushi"},
      mood : {None, "Romantic", "lively"} ]

CallSearchRestaurants ==
    /\ \E a \in SearchCalls, conn \in BOOLEAN :
         \E normalized_city \in (IF Truthy(a.city) THEN normalize_city(a.city) ELSE {None}),
            normalized_cuisine \in (IF Truthy(a.cuisine) THEN normalize_cuisine(a.cuisine)
                                    ELSE {None}) :
            tool_last' = Called("search_restaurants", a, conn,
                                search_restaurants(a, conn, normalized_city,
                                                   normalized_cuisine))
    /\ UNCHANGED <<agentVars, dbVars, book_last, rec_last, rank_last, bookings>>

DetailsCalls == [ restaurant_name : {"nobu", "Pizza Hut"}, city : {None, "Boston"} ]

CallGetRestaurantDetails ==
    /\ \E a \in DetailsCalls, conn \in BOOLEAN :
         \E normalized_city \in (IF Truthy(a.city) THEN normalize_city(a.city) ELSE {None}) :
            LET found == FindRestaurant(restaurants, a.restaurant_name, normalized_city) IN
            \E restaurant \in (IF found = {} THEN {NoRow} ELSE found) :
               tool_last' = Called("get_restaurant_details", a, conn,
                                   get_restaurant_details(a, conn, normalized_city,
                                                          restaurant))
    /\ UNCHANGED <<agentVars, dbVars, book_last, rec_last, rank_last, bookings>>

ToolRecCalls ==
    [ city : {None, "Chicago"}, occasion : {None, "Date night"},
      cuisine_preference : {None, "Sushi"}, group_size : {PyNone, PyInt(4), PyStr("abc")} ]

CallGetRecommendations ==
    /\ \E a \in ToolRecCalls, conn \in BOOLEAN :
         \E normalized_city \in (IF Truthy(a.city) THEN normalize_city(a.city) ELSE {None}),
            normalized_cuisine \in (IF Truthy(a.cuisine_preference)
                                    THEN normalize_cuisine(a.cuisine_preference)
                                    ELSE {None}) :
            tool_last' = Called("get_recommendations", a, conn,
                                RecDict(get_recommendations(a, conn, normalized_city,
                                                            normalized_cuisine).result))
    /\ UNCHANGED <<agentVars, dbVars, book_last, rec_last, rank_last, bookings>>

InquiryQueries == {"book a table for 4", "Make a RESERVATION", "find sushi", "notebook cafe"}
InquiryFields == {"city", "party_size", "cuisine", "time"}

CallProgressiveInquiry ==
    /\ \E query \in InquiryQueries, known_info \in SUBSET InquiryFields :
          tool_last' = Called("progressive_restaurant_inquiry",
                              [query |-> query, known_info |-> known_info], TRUE,
                              progressive_restaurant_inquiry(query, known_info))
    /\ UNCHANGED <<agentVars, dbVars, book_last, rec_last, rank_last, bookings>>

ValidateCalls ==
    [ restaurant_name : {None, "nobu"}, reservation_time : {None, "7:00 PM"},
      party_size : {PyNone, PyInt(0), PyInt(2), PyStr("abc")},
      customer_name : {None, "Ann"}, contact_number : {None, "555-0100"},
      city : {None, "Chicago"} ]

CallValidateBookingInfo ==
    /\ \E a \in ValidateCalls :
          tool_last' = Called("validate_booking_info", a, TRUE, validate_booking_info(a))
    /\ UNCHANGED <<agentVars, dbVars, book_last, rec_last, rank_last, bookings>>

ToolBookCalls ==
    [ restaurant_name : {"nobu"}, reservation_time : {"7:00 PM", "9:00 PM"},
      party_size : {PyInt(2), PyInt(5), PyStr("abc")},
      customer_name : {"Ann"}, contact_number : {"555-0100", "555-0100-0199-0100-0199"},
      city : {None, "Boston"} ]

CallBookRestaurant ==
    /\ \E a \in ToolBookCalls, conn \in BOOLEAN :
         \E normalized_city \in (IF Truthy(a.city) THEN normalize_city(a.city) ELSE {None}) :
            LET found == FindRestaurant(restaurants, a.restaurant_name, normalized_city) IN
            \E restaurant \in (IF found = {} THEN {NoRow} ELSE found) :
               LET out == book_restaurant(a, conn, normalized_city, restaurant) IN
               /\ restaurants' = out.restaurants
               /\ reservations' = out.reservations
               /\ tool_last' = Called("book_restaurant", a, conn, BookDict(out.result))
    /\ UNCHANGED <<agentVars, book_last, rec_last, rank_last, bookings>>

CallCheckReservation ==
    /\ \E confirmation_number \in {PyInt(1), PyInt(7), PyStr("abc")}, conn \in BOOLEAN :
          tool_last' = Called("check_reservation",
                              [confirmation_number |-> confirmation_number], conn,
                              check_reservation(confirmation_number, conn))
    /\ UNCHANGED <<agentVars, dbVars, book_last, rec_last, rank_last, bookings>>

CallGetAvailableOptions ==
    /\ tool_last' = Called("get_available_options", <<>>, TRUE, get_available_options)
    /\ UNCHANGED <<agentVars, dbVars, book_last, rec_last, rank_last, bookings>>

\* The tables the tools start from.
ToolTables ==
    { <<>>,
      << Restaurant(1, "Nobu", "Chicago", "Italian", "romantic", 4, <<"7:00 PM">>),
         Restaurant(2, "Cantina", "Chicago", "Mexican", "Lively", 6, <<"8:00 PM">>),
         Restaurant(3, "Zuma", "Boston", "Italian", "casual", 6, <<"8:00 PM">>) >> }

(***************************************************************************)
(* book_restaurant called twice at the same time.  get_db_connection sets  *)
(* autocommit, so each statement of a call is a transaction of its own and *)
(* the statements of the two calls interleave in any order.  A call is the *)
(* statement it is at, its arguments, the row it fetched (the local        *)
(* `restaurant`) and the status it returned.                               *)
(***************************************************************************)
Callers == {1, 2}

NoBookings == [before |-> <<>>, call |-> [c \in {} |-> <<>>]]

RaceCalls ==
    [ restaurant_name : {"nobu"}, reservation_time : {"7:00 PM"},
      party_size : {PyInt(2), PyInt(5)}, customer_name : {"Ann"},
      contact_number : {"555-0100"}, city : {None} ]

RaceTables ==
    { << Restaurant(1, "Nobu", "Chicago", "Italian", "romantic", c, slots) >> :
      c \in {4, 6}, slots \in { <<"7:00 PM">>, <<"7:00 PM", "8:00 PM", "7:00 PM">> } }

\* Lines 571-591: the SELECT and fetchone.
FindStep ==
    \E c \in Callers :
        /\ bookings.call[c].at = "find"
        /\ LET a == bookings.call[c].args
               found == FindRestaurant(restaurants, a.restaurant_name, None)
           IN \E restaurant \in (IF found = {} THEN {NoRow} ELSE found) :
                 bookings' =
                    [bookings EXCEPT
                       !.call[c].restaurant = restaurant,
                       !.call[c].at = IF restaurant = NoRow THEN "done" ELSE "check",
                       !.call[c].status = IF restaurant = NoRow THEN "not_found" ELSE ""]
        /\ UNCHANGED <<agentVars, dbVars, book_last, rec_last, rank_last, tool_last>>

\* Lines 594-611: the two checks, made on the row fetched.
CheckStep ==
    \E c \in Callers :
        /\ bookings.call[c].at = "check"
        /\ LET a == bookings.call[c].args
               restaurant == bookings.call[c].restaurant
               status == IF ~TimeAvailable(restaurant, a.reservation_time)
                         THEN "unavailable_time"
                         ELSE IF ~EnoughSeats(restaurant, IntOf(a.party_size).v.n)
                         THEN "insufficient_capacity"
                         ELSE ""
           IN bookings' = [bookings EXCEPT
                              !.call[c].at = IF status = "" THEN "insert" ELSE "done",
                              !.call[c].status = status]
        /\ UNCHANGED <<agentVars, dbVars, book_last, rec_last, rank_last, tool_last>>

\* Lines 614-620: INSERT INTO reservations ... RETURNING id.
InsertStep ==
    \E c \in Callers :
        /\ bookings.call[c].at = "insert"
        /\ LET a == bookings.call[c].args IN
           reservations' =
              Append(reservations,
                     [id |-> Len(reservations) + 1,
                      restaurant_id |-> bookings.call[c].restaurant.id,
                      customer_name |-> a.customer_name,
                      contact_number |-> a.contact_number,
                      party_size |-> IntOf(a.party_size).v.n,
                      reservation_time |-> a.reservation_time])
        /\ bookings' = [bookings EXCEPT !.call[c].at = "update"]
        /\ UNCHANGED <<agentVars, restaurants, book_last, rec_last, rank_last, tool_last>>

\* Lines 623-656: the capacity and the slot list computed from the row
\* fetched are written back, and success is returned.
UpdateStep ==
    \E c \in Callers :
        /\ bookings.call[c].at = "update"
        /\ LET a == bookings.call[c].args
               restaurant == bookings.call[c].restaurant
           IN restaurants' =
                 UpdateRestaurant(restaurants, restaurant.id,
                                  NewCapacity(restaurant, IntOf(a.party_size).v.n),
                                  Remove(restaurant.available_reservations,
                                         a.reservation_time))
        /\ bookings' = [bookings EXCEPT !.call[c].at = "done", !.call[c].status = "success"]
        /\ UNCHANGED <<agentVars, reservations, book_last, rec_last, rank_last, tool_last>>

\* ToolAgent.__init__, lines 84-100.
AgentInit ==
    /\ tool_chat_history = <<build_prompt_structure("system", "system", 0)>>
    /\ agent_chat_history = <<>>
    /\ tool_call_id = 0
    /\ pc = "idle"
    /\ turn = 0
    /\ tool_calls = NoCalls
    /\ idx = 1
    /\ observations = <<>>
    /\ response = NoResponse
    /\ trace = <<>>

(***************************************************************************)
(* The specifications.                                                     *)
(***************************************************************************)
\* The agent at rest, for the specifications of the tools alone.
AgentIdle == AgentInit
\* No tool has been called.
ToolsIdle ==
    /\ book_last = NoBookCall
    /\ rec_last = NoRecCall
    /\ rank_last = NoRanking
    /\ tool_last = NoToolCall
    /\ bookings = NoBookings

\* ToolAgent: the turns of one agent; the tools are what tool.run does.
Init ==
    /\ AgentInit
    /\ restaurants = <<>>
    /\ reservations = <<>>
    /\ ToolsIdle

Next ==
    \/ Run
    \/ CompleteTool
    \/ ProcessToolCall
    \/ FormatObservations
    \/ CompleteAgent
    \/ MainLoop

Spec == Init /\ [][Next]_vars

\* ToolAgent with a completion provider that can fail.
FaultyNext ==
    \/ Next
    \/ CompleteToolRaises
    \/ CompleteAgentRaises
    \/ MainLoopExcept

FaultySpec == Init /\ [][FaultyNext]_vars

\* The agent answering model outputs whose calls carry numeric arguments.
CoerceNext ==
    \/ Run
    \/ CompleteToolNumeric
    \/ ProcessToolCall
    \/ FormatObservations
    \/ CompleteAgent
    \/ MainLoop

CoerceSpec == Init /\ [][CoerceNext]_vars

\* book_restaurant called again and again on one database.
BookInit ==
    /\ AgentIdle
    /\ restaurants \in BookTables
    /\ reservations = <<>>
    /\ ToolsIdle

BookNext == BookRestaurant

BookSpec == BookInit /\ [][BookNext]_vars

\* get_recommendations called once on a database.
RecInit ==
    /\ AgentIdle
    /\ \E n \in 0..MaxRows : restaurants \in RecTables(n) \cup LargeTables
    /\ reservations = <<>>
    /\ book_last = NoBookCall
    /\ rank_last = NoRanking
    /\ tool_last = NoToolCall
    /\ bookings = NoBookings
    /\ \E a \in RecCalls, conn \in BOOLEAN :
          rec_last = [NoRecCall EXCEPT !.args = a, !.conn = conn]

RecNext == GetRecommendations

RecSpec == RecInit /\ [][RecNext]_vars

\* The ranking applied to one list.
RankInit ==
    /\ AgentIdle
    /\ restaurants = <<>>
    /\ reservations = <<>>
    /\ book_last = NoBookCall
    /\ rec_last = NoRecCall
    /\ tool_last = NoToolCall
    /\ bookings = NoBookings
    /\ \E n \in 1..MaxRanked :
       \E list \in RankLists(n), mood \in {None, "romantic"},
          cuisine \in {None, "italian"} :
          rank_last = [NoRanking EXCEPT !.result_data = list, !.mood = mood,
                                        !.normalized_cuisine = cuisine]

RankNext == RankResults

RankSpec == RankInit /\ [][RankNext]_vars

\* The registered tools called on one database.
ToolsInit ==
    /\ AgentIdle
    /\ restaurants \in ToolTables
    /\ reservations = <<>>
    /\ ToolsIdle

ToolsNext ==
    \/ CallSearchRestaurants
    \/ CallGetRestaurantDetails
    \/ CallGetRecommendations
    \/ CallProgressiveInquiry
    \/ CallValidateBookingInfo
    \/ CallBookRestaurant
    \/ CallCheckReservation
    \/ CallGetAvailableOptions

ToolsSpec == ToolsInit /\ [][ToolsNext]_vars

\* Two calls of book_restaurant on one database at the same time.
RaceInit ==
    /\ AgentIdle
    /\ restaurants \in RaceTables
    /\ reservations = <<>>
    /\ book_last = NoBookCall
    /\ rec_last = NoRecCall
    /\ rank_last = NoRanking
    /\ tool_last = NoToolCall
    /\ \E args \in [Callers -> RaceCalls] :
          bookings = [before |-> restaurants,
                      call |-> [c \in Callers |->
                                  [at |-> "find", args |-> args[c], restaurant |-> NoRow,
                                   status |-> ""]]]

RaceNext ==
    \/ FindStep
    \/ CheckStep
    \/ InsertStep
    \/ UpdateStep

RaceSpec == RaceInit /\ [][RaceNext]_vars

(***************************************************************************)
(* Claims about ToolAgent.                                                 *)
(***************************************************************************)
EventsOf(kind) == SelectSeq(trace, LAMBDA e : e.ev = kind)
IntEntries(obs) == SelectSeq(obs, LAMBDA x : x.key.t = "int")
InTurn == pc \in {"dispatch", "answer", "returned"} /\ tool_calls.found

Callable(b) ==
    /\ b.json = "object"
    /\ b.hasName
    /\ b.name \in tools_dict
    /\ RequiredParams(b.name) \subseteq DOMAIN b.arguments

\* C7: every extracted block is handled exactly once, in extraction order,
\* one invocation ending before the next starts, and a block that fails does
\* not keep a later block of the turn from being executed and recorded.
C7_EveryBlockHandledInOrder ==
    InTurn =>
        LET blocks == EventsOf("block")
            n == Len(tool_calls.content)
        IN /\ Len(blocks) = idx - 1
           /\ \A k \in 1..Len(blocks) : blocks[k].i = k
           /\ pc # "dispatch" => idx = n + 1
           /\ \A k \in 1..Len(trace) :
                 trace[k].ev = "invoke" =>
                    /\ k < Len(trace)
                    /\ trace[k + 1].ev \in {"return", "raise"}
                    /\ trace[k + 1].i = trace[k].i
           /\ \A j \in 1..(idx - 1) :
                 Callable(tool_calls.content[j]) =>
                    \E k \in 1..Len(trace) : trace[k].ev = "invoke" /\ trace[k].i = j
           /\ \A k \in 1..Len(trace) :
                 trace[k].ev = "return" =>
                    /\ DictHas(observations, IntKey(trace[k].id))
                    /\ DictGet(observations, IntKey(trace[k].id)) = ResultValue(trace[k].r)

\* C7 witness: the first block of a turn did not parse, and the second was
\* executed and its result recorded.
C7_Witness ==
    /\ pc = "answer"
    /\ Len(tool_calls.content) = 2
    /\ tool_calls.content[1].json = "invalid"
    /\ DictHas(observations, StrKey("error"))
    /\ DictHas(observations, IntKey(0))

\* The text stored under "error" by the block just handled.
Resolves(b) == b.json = "object" /\ b.hasName /\ b.name \in tools_dict
NotFoundText(m) == Len(m) >= 2 /\ m[1] = "Tool '" /\ m[Len(m)] = "' not found"
ErrorText(m) == Len(m) >= 1 /\ m[1] = "Error: "

\* C8: observations["error"] is "Tool '<name>' not found" exactly for a call
\* whose name is not in the registry; a call whose tool resolves and whose
\* validation or invocation raises, whatever it raises, records
\* "Error: <message>"; a call that returns has its result under its id.
C8_ErrorTextTellsCause ==
    (pc = "dispatch" /\ idx > 1) =>
        LET b == tool_calls.content[idx - 1]
            last == trace[Len(trace)]
            raised == last.ev \in {"block", "raise"}
            err == DictGet(observations, StrKey("error")).m
        IN /\ raised => DictHas(observations, StrKey("error"))
           /\ (raised /\ b.json = "object" /\ b.hasName /\ b.name \notin tools_dict)
                 => NotFoundText(err)
           /\ (raised /\ Resolves(b)) => (ErrorText(err) /\ ~NotFoundText(err))
           /\ last.ev = "return" =>
                 /\ DictHas(observations, IntKey(last.id))
                 /\ DictGet(observations, IntKey(last.id)) = ResultValue(last.r)

IsPrefix(a, b) == Len(a) <= Len(b) /\ \A i \in 1..Len(a) : a[i] = b[i]
TurnMsgs(h, t) == SelectSeq(h, LAMBDA m : m.content.turn = t)
Shape(h) == [i \in 1..Len(h) |-> <<h[i].role, h[i].content.kind>>]
StepEvents ==
    SelectSeq(trace, LAMBDA e : e.ev \in {"append_user", "complete_tool", "append_tool",
                                          "dispatched", "complete_agent", "append_agent"})
StepNames(evs) == [i \in 1..Len(evs) |-> evs[i].ev]

\* What a finished turn adds to the agent history.
AgentTurnShapes(withSynthetic) ==
    IF withSynthetic
    THEN { << <<"user", "user_msg">>, <<"user", "Observation">>, <<"assistant", "response">> >>,
           << <<"user", "user_msg">>, <<"user", "Error">>, <<"assistant", "response">> >> }
    ELSE { << <<"user", "user_msg">>, <<"assistant", "response">> >> }

\* The state part of C9: the steps of a finished run and what the finished
\* turns left in the histories.
C9_TurnShape ==
    /\ pc = "returned" =>
          /\ StepNames(StepEvents) =
                <<"append_user", "complete_tool", "append_tool">>
                \o (IF tool_calls.found THEN <<"dispatched">> ELSE <<>>)
                \o <<"complete_agent", "append_agent">>
          /\ Shape(TurnMsgs(agent_chat_history, turn)) \in AgentTurnShapes(tool_calls.found)
    /\ pc \in {"returned", "idle"} =>
          /\ Len(tool_chat_history) = 1 + 2 * turn
          /\ \A t \in 1..turn :
                /\ tool_chat_history[2 * t] = build_prompt_structure("user_msg", "user", t)
                /\ tool_chat_history[2 * t + 1] =
                      build_prompt_structure("tool_call_response", "assistant", t)
                /\ Shape(TurnMsgs(agent_chat_history, t))
                      \in AgentTurnShapes(TRUE) \cup AgentTurnShapes(FALSE)
          /\ \A i \in 1..Len(agent_chat_history), j \in 1..Len(agent_chat_history) :
                i < j => /\ agent_chat_history[i].content.turn
                               <= agent_chat_history[j].content.turn
                         /\ agent_chat_history[i].content.turn >= 1

\* The step part of C9: no step changes, reorders or removes a message.
C9_AppendOnlyStep ==
    /\ IsPrefix(tool_chat_history, tool_chat_history')
    /\ IsPrefix(agent_chat_history, agent_chat_history')

C10_ErrorMessageThenReply ==
    (pc \in {"answer", "returned"} /\ tool_calls.found /\ DumpsRaises(observations)) =>
        LET cur == Shape(TurnMsgs(agent_chat_history, turn)) IN
        /\ pc = "answer" => cur = << <<"user", "user_msg">>, <<"user", "Error">> >>
        /\ pc = "returned" =>
              /\ cur = << <<"user", "user_msg">>, <<"user", "Error">>,
                          <<"assistant", "response">> >>
              /\ TurnMsgs(agent_chat_history, turn) =
                    SubSeq(agent_chat_history, Len(agent_chat_history) - 2,
                           Len(agent_chat_history))
              /\ response = [kind |-> "response", turn |-> turn]
              /\ StepNames(StepEvents) =
                    <<"append_user", "complete_tool", "append_tool", "dispatched",
                      "complete_agent", "append_agent">>

\* C10 witness: a run whose observations could not be serialized has
\* returned.
C10_Witness ==
    /\ pc = "returned"
    /\ tool_calls.found
    /\ DumpsRaises(observations)

(***************************************************************************)
(* Claims about book_restaurant.                                           *)
(***************************************************************************)
RowOf(table, id) == table[CHOOSE i \in 1..Len(table) : table[i].id = id]
Occurrences(list, x) == Cardinality({ k \in 1..Len(list) : list[k] = x })

\* C5: a call that returns success for party size P and time T, on a
\* restaurant with capacity C whose slot list holds T, leaves it with
\* capacity C - P and the slot list less exactly one T (the other slots in
\* their order), adds exactly one reservation row for it and changes no other
\* restaurant.
C5_SuccessfulBookingEffect ==
    (book_last.called /\ book_last.result.status = "success") =>
        LET before == book_last.restaurant
            old == before.available_reservations
            T == book_last.args.reservation_time
            P == IntOf(book_last.args.party_size).v.n
            after == RowOf(restaurants, before.id)
            new == after.available_reservations
        IN /\ Occurrences(old, T) >= 1
           /\ after.available_capacity = before.available_capacity - P
           /\ \E k \in 1..Len(old) :
                 /\ old[k] = T
                 /\ new = SubSeq(old, 1, k - 1) \o SubSeq(old, k + 1, Len(old))
           /\ Occurrences(new, T) = Occurrences(old, T) - 1
           /\ Len(restaurants) = Len(book_last.restaurants_before)
           /\ \A i \in 1..Len(restaurants) :
                 restaurants[i].id # before.id =>
                    restaurants[i] = book_last.restaurants_before[i]
           /\ after = [before EXCEPT !.available_capacity = after.available_capacity,
                                     !.available_reservations = new]
           /\ Len(reservations) = Len(book_last.reservations_before) + 1
           /\ SubSeq(reservations, 1, Len(reservations) - 1) = book_last.reservations_before
           /\ LET row == reservations[Len(reservations)] IN
                 /\ row.restaurant_id = before.id
                 /\ row.party_size = P
                 /\ row.reservation_time = T

\* C5 witness: a booking succeeded for a time the slot list held twice, after
\* an earlier booking.
C5_Witness ==
    /\ book_last.called
    /\ book_last.result.status = "success"
    /\ Occurrences(book_last.restaurant.available_reservations,
                   book_last.args.reservation_time) = 2
    /\ Len(reservations) = 2

\* C6: a call for a time that is not in the slot list returns
\* unavailable_time, a call for an available time with a party larger than
\* the capacity returns insufficient_capacity, and neither creates a
\* reservation row nor changes the capacity or the slot list.
C6_RefusedBookingChangesNothing ==
    (book_last.called /\ book_last.restaurant # NoRow) =>
        LET found == book_last.restaurant
            T == book_last.args.reservation_time
            P == IntOf(book_last.args.party_size).v.n
            unchanged == /\ restaurants = book_last.restaurants_before
                         /\ reservations = book_last.reservations_before
        IN /\ Occurrences(found.available_reservations, T) = 0 =>
                 /\ book_last.result.status = "unavailable_time"
                 /\ unchanged
           /\ (Occurrences(found.available_reservations, T) > 0
               /\ P > found.available_capacity) =>
                 /\ book_last.result.status = "insufficient_capacity"
                 /\ unchanged

\* C6 witness: after one booking, a party too large for the seats left was
\* refused.
C6_Witness ==
    /\ book_last.called
    /\ book_last.result.status = "insufficient_capacity"
    /\ Len(reservations) = 1
    /\ book_last.restaurants_before \notin BookTables

(***************************************************************************)
(* Claims about get_recommendations.                                       *)
(***************************************************************************)
\* The rows of the table that satisfy the constraints given (None, PyNone:
\* no constraint).
Matching(table, group_size, city, cuisine, mood) ==
    SelectSeq(table, LAMBDA r :
        /\ group_size.t = "int" => r.available_capacity >= group_size.n
        /\ Lower(r.city) = Lower(city)
        /\ Truthy(cuisine) => Lower(r.cuisine) = Lower(cuisine)
        /\ Truthy(mood) => Lower(r.mood) = Lower(mood))

\* The call went as far as the search: connection up, group size a number
\* or absent, city given.
Searched ==
    /\ rec_last.called
    /\ rec_last.conn
    /\ rec_last.args.group_size.t = "str" => IntOf(rec_last.args.group_size).ok
    /\ Truthy(rec_last.normalized_city)

\* C2: the levels are queried in the order full, mood dropped (if a mood was
\* derived), cuisine and mood dropped (if a cuisine was given), city alone;
\* a level is queried only if every level before it returned no rows; the
\* first level among the first three that returns rows supplies the data.
C2_RelaxationOrder ==
    Searched =>
        LET a == rec_last.args
            group_size == IF a.group_size.t = "none" THEN PyNone
                          ELSE IntOf(a.group_size).v
            mood == DeriveMood(a.occasion)
            cuisine == rec_last.normalized_cuisine
            city == rec_last.normalized_city
            rowsAt(level) ==
                CASE level = "full" ->
                        Matching(restaurants, group_size, city, cuisine, mood)
                  [] level = "mood_dropped" ->
                        Matching(restaurants, group_size, city, cuisine, None)
                  [] level = "cuisine_dropped" ->
                        Matching(restaurants, group_size, city, None, None)
                  [] OTHER -> <<>>
            order == <<"full">>
                     \o (IF Truthy(mood) THEN <<"mood_dropped">> ELSE <<>>)
                     \o (IF Truthy(cuisine) THEN <<"cuisine_dropped">> ELSE <<>>)
                     \o <<"city_only">>
            k == CHOOSE i \in 1..Len(order) :
                    /\ i = Len(order) \/ rowsAt(order[i]) # <<>>
                    /\ \A j \in 1..(i - 1) : rowsAt(order[j]) = <<>>
        IN /\ rec_last.levels = SubSeq(order, 1, k)
           /\ rec_last.result.count = Len(rowsAt(order[k]))
           /\ Rows(rec_last.result.data) \subseteq Rows(rowsAt(order[k]))
           /\ k < Len(order) => rec_last.result.data # <<>>

\* The level a response tells of, read from its data and query_params alone.
LevelOf(result) ==
    LET data == result.data
        mood == result.query_params.derived_mood
        cuisine == result.query_params.normalized_cuisine
        rows == 1..Len(data)
        moodOf(i) == Lower(data[i].mood) = Lower(mood)
        cuisineOf(i) == Lower(data[i].cuisine) = Lower(cuisine)
    IN CASE data = <<>> -> "city_only"
         [] data # <<>> /\ (Truthy(cuisine) => \A i \in rows : cuisineOf(i))
                        /\ (Truthy(mood) => \A i \in rows : moodOf(i)) -> "full"
         [] data # <<>> /\ (Truthy(cuisine) => \A i \in rows : cuisineOf(i))
                        /\ Truthy(mood) /\ \A i \in rows : ~moodOf(i) -> "mood_dropped"
         [] data # <<>> /\ Truthy(cuisine) /\ \A i \in rows : ~cuisineOf(i) ->
                "cuisine_dropped"
         [] OTHER -> "unknown"

\* C3: a response with data or with no results tells the level that produced
\* it: the level read from the response alone is the last level queried, so
\* responses of different levels differ.
C3_ResponseTellsLevel ==
    (rec_last.called /\ rec_last.result.status \in {"success", "no_results"}) =>
        /\ rec_last.levels # <<>>
        /\ LevelOf(rec_last.result) = rec_last.levels[Len(rec_last.levels)]

\* C3 witness: the data came from the query without cuisine and mood, and
\* holds a row of the derived mood beside a row of another mood.
C3_Witness ==
    /\ rec_last.called
    /\ rec_last.result.status = "success"
    /\ rec_last.levels = <<"full", "mood_dropped", "cuisine_dropped">>
    /\ \E i, j \in 1..Len(rec_last.result.data) :
          /\ Lower(rec_last.result.data[i].mood) = rec_last.result.query_params.derived_mood
          /\ Lower(rec_last.result.data[j].mood) # rec_last.result.query_params.derived_mood

\* The list of the ranking law: slot counts 2, 5, 3; the second row alone of
\* the mood asked for, the first alone of the cuisine asked for.
RankingLawList ==
    << RankRow(1, <<"7:00 PM", "8:00 PM">>, "casual", "Italian"),
       RankRow(2, <<"5:00 PM", "6:00 PM", "7:00 PM", "8:00 PM", "9:00 PM">>,
               "romantic", "Mexican"),
       RankRow(3, <<"6:00 PM", "7:00 PM", "8:00 PM">>, "casual", "Mexican") >>

\* C4: the list the three sorts leave is the list in the one order where a
\* row comes before another iff it matches the cuisine and the other does
\* not, or they agree on that and it alone matches the mood, or they agree on
\* both and it has more open slots, or they agree on all three and it came
\* first in the list sorted; the list of the ranking law stays as it was.
C4_ThreeSortsAreOnePrioritySort ==
    rank_last.done =>
        LET input == rank_last.result_data
            ranked == rank_last.ranked
            cuisine(x) == /\ Truthy(rank_last.normalized_cuisine)
                          /\ Lower(x.cuisine) = Lower(rank_last.normalized_cuisine)
            mood(x) == /\ Truthy(rank_last.mood)
                       /\ Lower(x.mood) = Lower(rank_last.mood)
            slots(x) == Len(x.available_reservations)
            first(x, y) ==
                \/ cuisine(x) /\ ~cuisine(y)
                \/ cuisine(x) = cuisine(y) /\ mood(x) /\ ~mood(y)
                \/ cuisine(x) = cuisine(y) /\ mood(x) = mood(y) /\ slots(x) > slots(y)
                \/ cuisine(x) = cuisine(y) /\ mood(x) = mood(y) /\ slots(x) = slots(y)
                   /\ x.id < y.id
        IN /\ Len(ranked) = Len(input)
           /\ Rows(ranked) = Rows(input)
           /\ \A i, j \in 1..Len(ranked) : i < j => first(ranked[i], ranked[j])
           /\ (input = RankingLawList /\ rank_last.mood = "romantic"
               /\ rank_last.normalized_cuisine = "italian") => ranked = input

\* C4 witness: the list of the ranking law has been ranked, and so has a
\* list on which the three keys tie.
C4_Witness ==
    /\ rank_last.done
    /\ rank_last.result_data = RankingLawList
    /\ rank_last.mood = "romantic"
    /\ rank_last.normalized_cuisine = "italian"
    /\ rank_last.ranked = RankingLawList

(***************************************************************************)
(* Claims about the failures of a turn.                                    *)
(***************************************************************************)
\* History h holds the user message of turn t and, after it, an assistant
\* message of turn t.
Answered(h, t) ==
    \E i, j \in 1..Len(h) :
        /\ i < j
        /\ h[i] = build_prompt_structure("user_msg", "user", t)
        /\ h[j].role = "assistant"
        /\ h[j].content.turn = t
Asked(h, t) == \E i \in 1..Len(h) : h[i] = build_prompt_structure("user_msg", "user", t)

\* C11 as claimed: no call of run() ends by raising, and a call that has
\* ended has returned the reply text and left both histories with the user
\* message of the turn followed by its assistant message.
C11_NoFailureLeavesRun ==
    /\ pc # "raised"
    /\ pc = "returned" =>
          /\ response = [kind |-> "response", turn |-> turn]
          /\ Answered(tool_chat_history, turn)
          /\ Answered(agent_chat_history, turn)

\* C11 as amended: a failure of the extraction, of the dispatch or of the
\* formatting never leaves run(); run() ends by raising only when a completion
\* request raised, the histories then hold the user message of the turn and
\* the agent history no assistant message for it, and main answers with its
\* fixed reply; every other call returns the reply text and leaves both
\* histories with the user message followed by the assistant message.
C11_OnlyCompletionFailuresLeaveRun ==
    /\ pc = "raised" =>
          /\ trace[Len(trace)].ev \in {"complete_tool_raise", "complete_agent_raise"}
          /\ Asked(tool_chat_history, turn)
          /\ Asked(agent_chat_history, turn)
          /\ ~Answered(agent_chat_history, turn)
          /\ agent_chat_history[Len(agent_chat_history)].role = "user"
    /\ pc = "returned" =>
          /\ response = [kind |-> "response", turn |-> turn]
          /\ Answered(tool_chat_history, turn)
          /\ Answered(agent_chat_history, turn)
          /\ agent_chat_history[Len(agent_chat_history)] =
                build_prompt_structure("response", "assistant", turn)
    /\ (pc = "idle" /\ turn > 0) =>
          /\ trace \in {<<>>, <<Event("generic_reply")>>}
          /\ (trace = <<Event("generic_reply")>>) = ~Answered(agent_chat_history, turn)

\* C11 witness: the second completion request raised after a dispatch whose
\* observations could not be serialized, and run() was left by the exception.
C11_Witness ==
    /\ pc = "raised"
    /\ trace[Len(trace)].ev = "complete_agent_raise"
    /\ \E i \in 1..Len(trace) : trace[i].ev = "dispatched"
    /\ DumpsRaises(observations)
    /\ turn = 2

\* C12: every result of every registered tool is a mapping with a status of
\* the closed set and a data field, and data is null exactly when the status
\* is one of error, not_found, no_results, insufficient_info, incomplete,
\* unavailable_time, insufficient_capacity.
C12_ToolResultContract ==
    tool_last.called =>
        LET result == tool_last.result IN
        /\ "status" \in DOMAIN result
        /\ "data" \in DOMAIN result
        /\ result.status \in {"success", "error", "not_found", "no_results",
                              "insufficient_info", "incomplete", "unavailable_time",
                              "insufficient_capacity", "missing_fields", "complete"}
        /\ result.data.none <=>
              result.status \in {"error", "not_found", "no_results", "insufficient_info",
                                 "incomplete", "unavailable_time", "insufficient_capacity"}

\* C13: search_restaurants returns only success or error; whenever its query
\* executes the status is success, also when no row matches the filters
\* (data the empty list, count 0, never no_results), and count is the number
\* of entries of data.
C13_SearchIsSuccessOrError ==
    (tool_last.called /\ tool_last.tool = "search_restaurants") =>
        LET result == tool_last.result
            a == tool_last.args
            matching == { r \in Rows(restaurants) :
                            /\ Truthy(a.city) => Lower(r.city) \in normalize_city(a.city)
                            /\ Truthy(a.cuisine) =>
                                  Lower(r.cuisine) \in normalize_cuisine(a.cuisine)
                            /\ Truthy(a.mood) => Lower(r.mood) = Lower(a.mood) }
        IN /\ result.status \in {"success", "error"}
           /\ tool_last.conn => result.status = "success"
           /\ result.status = "success" =>
                 /\ ~result.data.none
                 /\ result.count = Len(result.data.value)
                 /\ matching = {} => result.data.value = <<>> /\ result.count = 0

C13_Witness ==
    /\ tool_last.called
    /\ tool_last.tool = "search_restaurants"
    /\ restaurants # <<>>
    /\ Truthy(tool_last.args.city)
    /\ tool_last.result.status = "success"
    /\ tool_last.result.data.value = <<>>

\* C14: progressive_restaurant_inquiry says is_booking_intent exactly when the
\* lower-cased query contains "book" or "reservation", and next_field_to_ask is
\* the first of city, party_size, cuisine, time missing from known_info
\* (party_size and time only under booking intent), null when none is missing.
InquiryOrder == <<"city", "party_size", "cuisine", "time">>

C14_NextFieldToAsk ==
    (tool_last.called /\ tool_last.tool = "progressive_restaurant_inquiry") =>
        LET result == tool_last.result
            query == tool_last.args.query
            known_info == tool_last.args.known_info
            booking == \E word \in {"book", "reservation"} : In(word, Lower(query))
            missing == { i \in 1..4 :
                           /\ InquiryOrder[i] \notin known_info
                           /\ InquiryOrder[i] \in {"party_size", "time"} => booking }
        IN /\ result.is_booking_intent = booking
           /\ IF missing = {}
              THEN result.next_field_to_ask = None
              ELSE \E i \in missing :
                      /\ \A j \in missing : i <= j
                      /\ result.next_field_to_ask = InquiryOrder[i]

C14_Witness ==
    /\ tool_last.called
    /\ tool_last.tool = "progressive_restaurant_inquiry"
    /\ tool_last.args.query = "book a table for 4"
    /\ tool_last.args.known_info = {}
    /\ tool_last.result.is_booking_intent
    /\ tool_last.result.next_field_to_ask = "city"

\* C15: an argument of a dispatched call whose parameter is declared numeric
\* (group_size, party_size, confirmation_number) reaches the tool as the
\* integer when its string spells one, and unchanged when it cannot be
\* coerced, and the dispatcher does not fail that call.
Dispatchable(b) ==
    /\ b.json = "object"
    /\ b.hasName
    /\ b.name \in tools_dict
    /\ RequiredParams(b.name) \subseteq DOMAIN b.arguments

C15_NumericArgumentsCoerced ==
    \A k \in 1..Len(trace) :
        trace[k].ev = "block" /\ Dispatchable(tool_calls.content[trace[k].i]) =>
            LET raw == tool_calls.content[trace[k].i].arguments IN
            /\ k < Len(trace)
            /\ \E j \in k + 1 .. Len(trace) :
                  /\ trace[j].ev = "invoke"
                  /\ trace[j].i = trace[k].i
                  /\ DOMAIN trace[j].args = DOMAIN raw
                  /\ \A p \in DOMAIN raw \cap {"group_size", "party_size",
                                               "confirmation_number"} :
                        raw[p].t = "str" =>
                            IF raw[p].s \in {"2", "4"}
                            THEN trace[j].args[p] =
                                    PyInt(IF raw[p].s = "2" THEN 2 ELSE 4)
                            ELSE trace[j].args[p] = raw[p]

C15_Witness ==
    \E k, l \in 1..Len(trace) :
        /\ trace[k].ev = "invoke"
        /\ trace[l].ev = "invoke"
        /\ "party_size" \in DOMAIN trace[k].args
        /\ trace[k].args["party_size"] = PyInt(2)
        /\ "confirmation_number" \in DOMAIN trace[l].args
        /\ trace[l].args["confirmation_number"] = PyStr("abc")

\* C16: after the dispatch of a turn observations has the key "reminder"
\* exactly when a recorded result is a mapping with status "no_results" and
\* empty data; there is at most one reminder entry, and the entries recorded
\* by the dispatch are left as they were.
Triggers(obs) ==
    { i \in 1..Len(obs) :
        /\ obs[i].value.t = "dict"
        /\ obs[i].value.r.status = "no_results"
        /\ obs[i].value.r.data \in {"empty_list", "null"} }

Reminders(obs) == { i \in 1..Len(obs) : obs[i].key = StrKey("reminder") }

C16_ReminderInjection ==
    [][(pc = "dispatch" /\ pc' # "dispatch") =>
          /\ Reminders(observations) = {}
          /\ (Reminders(observations') # {}) <=> (Triggers(observations) # {})
          /\ Cardinality(Reminders(observations')) <= 1
          /\ Len(observations') = Len(observations) + Cardinality(Reminders(observations'))
          /\ \A i \in 1..Len(observations) : observations'[i] = observations[i]]_vars

C16_Witness ==
    /\ pc = "answer"
    /\ Cardinality(Triggers(observations)) = 2
    /\ Len(observations) = 3
    /\ Cardinality(Reminders(observations)) = 1

\* C17: get_recommendations derives the mood from the occasion by trying the
\* keys longest first (celebration, business, friends, family, date) against
\* the lower-cased occasion, the first key contained giving the mood; no key
\* contained, or no occasion, gives no mood.
Answers == rec_last.called /\ rec_last.result.status \in {"success", "no_results"}

FirstContained(keys, occasion) ==
    IF ~Truthy(occasion) THEN None
    ELSE LET hits == { n \in 1..Len(keys) : In(keys[n][1], Lower(occasion)) }
         IN IF hits = {} THEN None
            ELSE keys[CHOOSE n \in hits : \A j \in hits : n <= j][2]

C17_MoodLongestKeyFirst ==
    Answers =>
        rec_last.result.query_params.derived_mood =
            FirstContained(<< <<"celebration", "lively">>, <<"business", "sophisticated">>,
                              <<"friends", "casual">>, <<"family", "casual">>,
                              <<"date", "romantic">> >>, rec_last.args.occasion)

\* C17, amended: the keys are tried in the order of the table (date, business,
\* family, friends, celebration) and the first key contained in the lower-cased
\* occasion gives the mood; no key contained, or no occasion, gives no mood.
C17_MoodDeclarationOrder ==
    Answers =>
        rec_last.result.query_params.derived_mood =
            FirstContained(<< <<"date", "romantic">>, <<"business", "sophisticated">>,
                              <<"family", "casual">>, <<"friends", "casual">>,
                              <<"celebration", "lively">> >>, rec_last.args.occasion)

C17_Witness ==
    /\ Answers
    /\ rec_last.args.occasion = "Business celebration"
    /\ rec_last.result.query_params.derived_mood = "sophisticated"

\* C18: with a connection, get_recommendations checks the group size before
\* the city: a group size that int() rejects gives status error with data null
\* whatever the city; otherwise, with no usable city, it gives
\* insufficient_info with data null and at most 10 candidate cities in
\* ascending order, and no restaurant query is executed.
Position(x) == CHOOSE i \in 1..Len(Alphabetical) : Alphabetical[i] = x

C18_GroupSizeBeforeCity ==
    (rec_last.called /\ rec_last.conn) =>
        LET result == rec_last.result
            cities == result.available_cities
            uncoercible == rec_last.args.group_size.t = "str"
                           /\ rec_last.args.group_size.s \notin {"2", "4"}
        IN /\ uncoercible =>
                 /\ result.status = "error"
                 /\ result.data_is_none
                 /\ rec_last.levels = <<>>
           /\ (~uncoercible /\ ~Truthy(rec_last.normalized_city)) =>
                 /\ result.status = "insufficient_info"
                 /\ result.data_is_none
                 /\ rec_last.levels = <<>>
                 /\ Len(cities) <= 10
                 /\ Len(cities) < 10 => Len(cities) = Cardinality(AVAILABLE_CITIES)
                 /\ \A i \in 1..Len(cities) : cities[i] \in AVAILABLE_CITIES
                 /\ \A i, j \in 1..Len(cities) :
                       i < j => Position(cities[i]) < Position(cities[j])
                 /\ \A c \in AVAILABLE_CITIES :
                       (\A i \in 1..Len(cities) : cities[i] # c) =>
                           \A i \in 1..Len(cities) : Position(cities[i]) < Position(c)

C18_Witness ==
    /\ rec_last.called
    /\ rec_last.conn
    /\ rec_last.args.group_size = PyStr("4")
    /\ ~Truthy(rec_last.normalized_city)
    /\ Cardinality(AVAILABLE_CITIES) = 11
    /\ Len(rec_last.result.available_cities) = 10
    /\ rec_last.result.status = "insufficient_info"

\* C19: when the queries of get_recommendations run without error, data is
\* the first min(n, 5) entries of the ranked list of n entries, the status is
\* success exactly when data is non-empty and no_results exactly when it is
\* empty, and fallback_suggestions is non-null exactly when the status is
\* no_results.
C19_TopFiveAndStatus ==
    Answers =>
        LET result == rec_last.result
            n == Len(rec_last.ranked)
            kept == IF n < 5 THEN n ELSE 5
        IN /\ Len(result.data) = kept
           /\ \A i \in 1..kept : result.data[i] = rec_last.ranked[i]
           /\ result.status = "success" <=> result.data # <<>>
           /\ result.status = "no_results" <=> result.data = <<>>
           /\ ~result.fallback_suggestions.null <=> result.status = "no_results"

C19_Witness ==
    /\ Answers
    /\ Len(rec_last.ranked) > 5
    /\ Len(rec_last.result.data) = 5
    /\ rec_last.result.status = "success"

\* C20: at every relaxation level every restaurant returned in data is in the
\* normalized requested city and, when a group size was given, has at least
\* that available capacity; the rows of the city-only query are never
\* returned.
GivenSize(group_size) == IF group_size.t = "int" THEN group_size.n ELSE 4

C20_ReturnedRowsFitCityAndSize ==
    Answers =>
        /\ \A i \in 1..Len(rec_last.result.data) :
              LET row == rec_last.result.data[i] IN
              /\ row \in Rows(restaurants)
              /\ Lower(row.city) = Lower(rec_last.normalized_city)
              /\ rec_last.args.group_size # PyNone =>
                    row.available_capacity >= GivenSize(rec_last.args.group_size)
        /\ "city_only" \in Rows(rec_last.levels) => rec_last.result.data = <<>>

C20_Witness ==
    /\ Answers
    /\ rec_last.args.group_size # PyNone
    /\ Len(rec_last.levels) > 1
    /\ rec_last.result.data # <<>>
    /\ \E r \in Rows(restaurants) :
          /\ Lower(r.city) = Lower(rec_last.normalized_city)
          /\ r.available_capacity < GivenSize(rec_last.args.group_size)

\* C21: after any sequence of book_restaurant calls, with any party size,
\* every restaurant's available_capacity is at least 0, never increases (so
\* stays at most its initial value), and equals the initial value minus the
\* sum of the party sizes of the reservation rows created for the restaurant
\* (capacity plus that sum is the same after every call).
RECURSIVE PartySizes(_, _)
PartySizes(rows, id) ==
    IF rows = <<>> THEN 0
    ELSE (IF rows[1].restaurant_id = id THEN rows[1].party_size ELSE 0)
         + PartySizes(Tail(rows), id)

C21_CapacityWithinBounds ==
    /\ [](\A r \in Rows(restaurants) : r.available_capacity >= 0)
    /\ [][\A r \in Rows(restaurants) :
            LET after == RowOf(restaurants', r.id) IN
            /\ after.available_capacity <= r.available_capacity
            /\ after.available_capacity + PartySizes(reservations', r.id)
                 = r.available_capacity + PartySizes(reservations, r.id)]_vars

\* C22: when two book_restaurant calls for the same restaurant and the same
\* time run at once, their statements interleaved in any order, at most one
\* returns success if the slot list held the time once, and the final
\* available capacity is the initial one minus the party sizes of all the
\* reservation rows created.
BothReturned == bookings.call # <<>> /\ \A c \in Callers : bookings.call[c].at = "done"

C22_ConcurrentBookingsAreSerial ==
    BothReturned =>
        LET before == bookings.before[1]
            T == bookings.call[1].args.reservation_time
            succeeded == { c \in Callers : bookings.call[c].status = "success" }
        IN /\ Occurrences(before.available_reservations, T) = 1 =>
                 Cardinality(succeeded) <= 1
           /\ RowOf(restaurants, before.id).available_capacity =
                 before.available_capacity - PartySizes(reservations, before.id)

====
